---- MODULE Spec2Model ----
(***************************************************************************)
(* Verification model of the tacit7/felix travel scrapers.                 *)
(*                                                                         *)
(* Every script of the repository is a standalone batch job.  The model    *)
(* keeps one group of variables per script family and one specification   *)
(* per family; the variables of the families a specification does not run  *)
(* stay at their initial ("not started") values.                           *)
(*                                                                         *)
(*   Spec        the three main entry points: scraper-runner.py main,      *)
(*               tripadvisor_scraper.main, reddit_travel_scraper.main      *)
(***************************************************************************)
EXTENDS Integers, Sequences, FiniteSets, TLC

(***************************************************************************)
(* Bounds of the model.                                                    *)
(***************************************************************************)
MaxPreviews == 2        \* previews a search returns
MaxArg == 2             \* largest --max-items / --max-review-pages drawn
MaxTotalPages == 3      \* largest number of review pages an item reports
MaxPageReviews == 1     \* reviews parsed from an item's first page
MaxSubreddits == 2      \* subreddits searched by the Reddit scraper
MaxPosts == 2           \* posts the Reddit searches return in one run
MaxLocationResults == 2 \* entries of a location search response
MaxCurated == 2         \* posts in the curated Reddit file
MaxScraped == 2         \* entries the guide searches return in one run
MaxFound == 2           \* entries one search response holds
MaxSeen == 3            \* results the city searches return in one run
MaxPages == 6           \* pages one gather requests
MaxPageSize == 2        \* previews parsed from a first search page
MaxTotalResults == 4    \* total count a first search page states
MaxSearchPages == 2     \* max_pages given to a search
MaxPagePreviews == 1    \* previews parsed from a later search page
MaxComments == 6        \* top-level comments of a submission

(***************************************************************************)
(* Python values.                                                          *)
(***************************************************************************)
\* Optional[int]: None is the empty tuple, an int n is <<n>>.
None == <<>>
Some(n) == <<n>>

\* Python truthiness of an Optional[int]: None and 0 are falsy.
Truthy(o) == o # None /\ o[1] # 0

\* Python truthiness of a list or dict: empty containers are falsy.
NonEmpty(c) == DOMAIN c # {}

Min(a, b) == IF a <= b THEN a ELSE b
Max(a, b) == IF a >= b THEN a ELSE b

\* math.ceil(a / b) for a >= 0, b > 0
Ceil(a, b) == (a + b - 1) \div b

\* s[:n] for n >= 0
Slice(s, n) == SubSeq(s, 1, Min(n, Len(s)))

\* range(a, b) as a sequence
Range(a, b) == [k \in 1..Max(0, b - a) |-> a + k - 1]

SeqToSet(s) == {s[k] : k \in DOMAIN s}

(***************************************************************************)
(* State.                                                                  *)
(***************************************************************************)
VARIABLES
    \* --- entry points: scraper-runner.py, tripadvisor_scraper.py,
    \*     reddit_travel_scraper.py
    script,             \* which main() this run executes
    args,               \* the parsed command line of that main
    pc,                 \* position of the run
    runner,             \* the function that owns the TripAdvisorScraper
    todo_types,         \* content types the runner has still to scrape
    content_type,       \* content_type of the running scrape_by_type
    search_results,     \* scrape_by_type: previews left after the limit
    found_results,      \* what scrape_search_by_type returned (history)
    idx,                \* scrape_by_type: loop index (1-based)
    items_data_list,    \* scrape_by_type: items scraped so far
    review_urls,        \* review pages requested for the last item
    succeeded,          \* previews whose scrape_* returned data (history)
    by_type_exit,       \* how the last scrape_by_type call ended
    all_data,           \* run_all_types_scraper / tripadvisor main: dict
    data,               \* what the runner returned to main
    files,              \* JSON files written by this run
    client_closed,      \* number of scraper.close() calls
    now,                \* the wall clock at the time of saving
    subreddit_idx,      \* search_travel_posts: index into subreddits
    term_idx,           \* search_travel_posts: index into search_terms
    posts,              \* search_travel_posts: post_data collected so far
    sleep_due,          \* a search was requested and no sleep(1) followed yet
    unslept_search,     \* a search was requested while sleep_due (history)
    sorted_posts        \* what search_travel_posts returned

varsEntry == <<script, args, pc, runner, todo_types, content_type, search_results,
               found_results, idx, items_data_list, review_urls, succeeded,
               by_type_exit, all_data, data, files, client_closed, now,
               subreddit_idx, term_idx, posts, sleep_due, unslept_search,
               sorted_posts>>

VARIABLES
    \* --- tripadvisor_advanced_isla_verde.py
    iv_pc,              \* position of scrape_isla_verde_complete
    location_response,  \* the response search_location_graphql received (history)
    location_data,      \* what search_location_graphql returned
    query_idx,          \* scrape_attractions_graphql: index into attraction_query_ids
    requests,           \* scrape_attractions_graphql: query ids posted so far
    query_outcomes,     \* scrape_attractions_graphql: how each post ended (history)
    attractions,        \* what scrape_attractions_graphql returned
    result              \* what scrape_isla_verde_complete returned

varsIsla == <<iv_pc, location_response, location_data, query_idx, requests,
              query_outcomes, attractions, result>>

VARIABLES
    \* --- isla_verde_simple_scraper.py and extract_reddit_content_batch.py
    rt_pc,              \* position of the run
    url_idx,            \* scrape_isla_verde_comprehensive: index into test_urls
    attempt,            \* test_url_access: the loop variable
    url_responses,      \* per test URL, the outcome of every client.get sent
    can_access_tripadvisor,
    top_posts,          \* the curated posts: the post id in each URL, 0 if none
    post_ids,           \* extract_full_reddit_content_batch: ids to fetch
    info_calls,         \* the fullnames of every reddit.info call
    submission_calls,   \* the id of every reddit.submission call
    submissions,        \* ids of the submissions fetched
    submission_idx,     \* index of the processing loop
    posts_with_content, \* ids of the posts processed without error
    output_files        \* number of files written

varsRetry == <<rt_pc, url_idx, attempt, url_responses, can_access_tripadvisor,
               top_posts, post_ids, info_calls, submission_calls, submissions,
               submission_idx, posts_with_content, output_files>>

VARIABLES
    \* --- final_isla_verde_scraper.py and isla_verde_restaurants_scraper.py
    guide_pc,           \* position of create_final_guide / create_restaurant_guide
    guide_kind,         \* "attractions" or "restaurants"
    search_idx,         \* scrape_all_*: index into the list of searches
    scraped,            \* scrape_all_*: all_attractions / all_restaurants
    final,              \* final_attractions / final_restaurants
    guide_counts        \* the counts and scraping_summary of the returned guide

varsGuide == <<guide_pc, guide_kind, search_idx, scraped, final, guide_counts>>

VARIABLES
    \* --- universal_city_scraper.py
    city_pc,            \* position of scrape_restaurants / scrape_attractions
    state_or_country,   \* UniversalCityScraper.state_or_country
    place_type,         \* "EATERY" or "ATTRACTION"
    city_query_idx,     \* index into restaurant_searches / attraction_searches
    seen_urls,          \* the loop's seen_urls
    all_places,         \* all_restaurants / all_attractions
    encountered         \* every result search_places returned, in order (history)

varsCity == <<city_pc, state_or_country, place_type, city_query_idx, seen_urls,
              all_places, encountered>>

VARIABLES
    \* --- tripadvisor_scraper.py: the client's connections during a gather
    pool_pc,            \* position of the "for task in asyncio.as_completed(tasks)" loop
    tasks,              \* state of each client.get(url) of the gather
    active,             \* connections of self.client that carry a request
    idle                \* kept-alive connections of self.client

varsPool == <<pool_pc, tasks, active, idle>>

VARIABLES
    \* --- tripadvisor_scraper.py: scrape_search_by_type / scrape_search
    sr_pc,              \* position in scrape_search_by_type
    search_type,        \* "hotels", "attractions" or "restaurants"
    max_pages,          \* Optional[int]
    page_size,          \* len(results) after the first page
    total_results_text, \* the total count found on the first page, or None
    next_page_url,      \* the joined "Next page" link, None when there is none
    other_page_urls,    \* URLs generated for the remaining pages
    page_state,         \* per remaining page: "pending", "ok" or "failed"
    page_previews,      \* per remaining page: previews parsed from its response
    first_results,      \* previews parsed from the first page
    search_list         \* "results": the list the function builds and returns

varsSearch == <<sr_pc, search_type, max_pages, page_size, total_results_text,
                next_page_url, other_page_urls, page_state, page_previews,
                first_results, search_list>>

VARIABLES
    \* --- reddit_travel_scraper.py: _is_relevant_post
    rel_pc,             \* "call" before the call, "returned" after it
    rel_location,       \* the location argument, as characters
    post,               \* the post: title and selftext (None or characters)
    relevant            \* the value returned

varsRelevant == <<rel_pc, rel_location, post, relevant>>

VARIABLES
    \* --- scripts/filter_most_useful.py and scripts/extract_reddit_content.py
    ex_pc,              \* position of extract_full_reddit_content
    credentials,        \* the three REDDIT_* settings are all present
    connected,          \* whether praw.Reddit / reddit.user.me() will succeed
    curated_file,       \* puerto_rico_reddit_curated_top20_2024.json: None or its top_posts
    full_content_file,  \* puerto_rico_reddit_top20_full_content.json: None or its content
    post_idx,           \* index into curated_data['top_posts'] (i)
    outcomes,           \* per curated post handled: how its processing ended (history)
    ex_posts_with_content, \* posts_with_content
    returned            \* "nothing yet", "None" or "output_data"

varsExtract == <<ex_pc, credentials, connected, curated_file, full_content_file,
                 post_idx, outcomes, ex_posts_with_content, returned>>

VARIABLES
    \* --- universal_city_scraper.py: one call of search_places
    sp_pc,              \* position of search_places
    sp_place_type,      \* the place_type argument
    sp_response,        \* how client.post ended and what the response holds
    sp_returned         \* None, or the list search_places returned

varsPlaces == <<sp_pc, sp_place_type, sp_response, sp_returned>>

VARIABLES
    \* --- tripadvisor_scraper.py: scrape_hotel, scrape_attraction and
    \*     scrape_restaurant called on items reporting the same review count
    rv_pc,                  \* "calls" while the three functions may be called
    rv_total_reviews,       \* aggregateRating.reviewCount of the item page
    rv_max_review_pages,    \* the max_review_pages argument (None by default)
    rv_review_urls          \* per function: None, or the offsets in its review_urls

varsReviews == <<rv_pc, rv_total_reviews, rv_max_review_pages, rv_review_urls>>

vars == <<varsEntry, varsIsla, varsRetry, varsGuide, varsCity, varsPool, varsSearch,
          varsRelevant, varsExtract, varsPlaces, varsReviews>>

othersEntry == <<varsIsla, varsRetry, varsGuide, varsCity, varsPool, varsSearch, varsRelevant, varsExtract, varsPlaces, varsReviews>>
othersIsla == <<varsEntry, varsRetry, varsGuide, varsCity, varsPool, varsSearch, varsRelevant, varsExtract, varsPlaces, varsReviews>>
othersRetry == <<varsEntry, varsIsla, varsGuide, varsCity, varsPool, varsSearch, varsRelevant, varsExtract, varsPlaces, varsReviews>>
othersGuide == <<varsEntry, varsIsla, varsRetry, varsCity, varsPool, varsSearch, varsRelevant, varsExtract, varsPlaces, varsReviews>>
othersCity == <<varsEntry, varsIsla, varsRetry, varsGuide, varsPool, varsSearch, varsRelevant, varsExtract, varsPlaces, varsReviews>>
othersPool == <<varsEntry, varsIsla, varsRetry, varsGuide, varsCity, varsSearch, varsRelevant, varsExtract, varsPlaces, varsReviews>>
othersSearch == <<varsEntry, varsIsla, varsRetry, varsGuide, varsCity, varsPool, varsRelevant, varsExtract, varsPlaces, varsReviews>>
othersRelevant == <<varsEntry, varsIsla, varsRetry, varsGuide, varsCity, varsPool, varsSearch, varsExtract, varsPlaces, varsReviews>>
othersExtract == <<varsEntry, varsIsla, varsRetry, varsGuide, varsCity, varsPool, varsSearch, varsRelevant, varsPlaces, varsReviews>>
othersPlaces == <<varsEntry, varsIsla, varsRetry, varsGuide, varsCity, varsPool, varsSearch, varsRelevant, varsExtract, varsReviews>>
othersReviews == <<varsEntry, varsIsla, varsRetry, varsGuide, varsCity, varsPool, varsSearch, varsRelevant, varsExtract, varsPlaces>>

(***************************************************************************)
(* tripadvisor_scraper.py: TripAdvisorScraper                              *)
(***************************************************************************)
ContentTypes == <<"hotels", "attractions", "restaurants">>

\* content_type[:-1]
ItemType(ct) ==
    CASE ct = "hotels" -> "hotel"
      [] ct = "attractions" -> "attraction"
      [] ct = "restaurants" -> "restaurant"
      [] OTHER -> ct

\* The outcome of fetching and parsing one item's first page.
\*   first      how client.get / raise_for_status ended
\*   rating     what the page's JSON-LD holds under aggregateRating.reviewCount:
\*              "absent" no aggregateRating, "count" a number, "bad_value" a
\*              string int() rejects (ValueError), "missing_key" no reviewCount
\*              (KeyError), "type_error" null or a non-subscriptable
\*              aggregateRating (TypeError, which the code does not catch)
\*   count      the reported reviewCount
\*   page_reviews  reviews parsed from the first page
PageOutcomes ==
    [first : {"request_error", "bad_status"}, rating : {"absent"},
     count : {0}, page_reviews : {0}]
    \cup [first : {"ok"}, rating : {"absent", "type_error"},
          count : {0}, page_reviews : {0}]
    \cup [first : {"ok"}, rating : {"count"},
          count : {n \in 0..(10 * MaxTotalPages) : n % 10 \in {0, 1}},
          page_reviews : {0}]
    \cup [first : {"ok"}, rating : {"bad_value", "missing_key"},
          count : {0}, page_reviews : 0..MaxPageReviews]

review_page_size == 10

\* total_reviews as scrape_hotel / scrape_attraction / scrape_restaurant compute it
TotalReviews(o) ==
    CASE o.rating = "absent" -> 0
      [] o.rating = "count" -> o.count
      [] OTHER -> o.page_reviews * 10

\* scrape_hotel: total_review_pages (0 when no page loop is entered)
HotelReviewPages(total_reviews, max_review_pages) ==
    IF total_reviews > 0
    THEN LET total_review_pages == Ceil(total_reviews, review_page_size)
         IN  IF Truthy(max_review_pages) /\ max_review_pages[1] < total_review_pages
             THEN max_review_pages[1]
             ELSE total_review_pages
    ELSE 0

\* scrape_attraction, scrape_restaurant: total_review_pages
PlaceReviewPages(total_reviews, max_review_pages) ==
    IF total_reviews > 0 /\ Truthy(max_review_pages)
    THEN Min(max_review_pages[1], Ceil(total_reviews, review_page_size))
    ELSE 0

\* review_urls: the offsets substituted into the item URL (-Reviews-or<k>-)
ReviewUrls(total_review_pages) ==
    [k \in 1..Max(0, total_review_pages - 1) |-> review_page_size * Range(1, total_review_pages)[k]]

\* scrape_hotel / scrape_attraction / scrape_restaurant on one preview:
\* [raised, item_data (<<>> is the empty dict), review_urls]
ScrapeItemResult(ct, o, max_review_pages) ==
    IF o.first # "ok"
    THEN [raised |-> FALSE, item_data |-> <<>>, review_urls |-> <<>>]
    ELSE IF o.rating = "type_error"
    THEN [raised |-> TRUE, item_data |-> <<>>, review_urls |-> <<>>]
    ELSE LET pages == IF ct = "hotels"
                      THEN HotelReviewPages(TotalReviews(o), max_review_pages)
                      ELSE PlaceReviewPages(TotalReviews(o), max_review_pages)
         IN  [raised |-> FALSE,
              item_data |-> [basic_data |-> o.rating],
              review_urls |-> ReviewUrls(pages)]

\* scrape_by_type: "if max_items: search_results = search_results[:max_items]"
LimitItems(results, max_items) ==
    IF Truthy(max_items) THEN Slice(results, max_items[1]) ELSE results

varsByType == <<content_type, search_results, found_results, idx, items_data_list,
                review_urls, succeeded, by_type_exit>>
varsReddit == <<subreddit_idx, term_idx, posts, sleep_due, unslept_search, sorted_posts>>

\* scrape_by_type, up to the loop: the search (scrape_search_by_type with
\* max_pages=5) either raises (scrape_location_data's request failed) or
\* returns n previews; an empty list is returned as [].
ScrapeSearch ==
    /\ pc = "search"
    /\ content_type' = Head(todo_types)
    /\ \/ /\ by_type_exit' = "search_raised"
          /\ pc' = "except"
          /\ UNCHANGED <<search_results, found_results, idx, items_data_list, succeeded>>
       \/ \E n \in 0..MaxPreviews :
            LET results == [k \in 1..n |-> k] IN
            /\ found_results' = results
            /\ search_results' = LimitItems(results, args.max_items)
            /\ idx' = 1
            /\ items_data_list' = <<>>
            /\ succeeded' = {}
            /\ IF results = <<>>
               THEN by_type_exit' = "returned" /\ pc' = "return"
               ELSE by_type_exit' = "running" /\ pc' = "loop"
    /\ review_urls' = <<>>
    /\ UNCHANGED <<script, args, runner, todo_types, all_data, data, files, client_closed, now>>
    /\ UNCHANGED varsReddit
    /\ UNCHANGED othersEntry

\* scrape_by_type: one iteration of "for i, item_preview in enumerate(search_results)"
ScrapeItem ==
    /\ pc = "loop"
    /\ idx <= Len(search_results)
    /\ \E o \in PageOutcomes :
         LET r == ScrapeItemResult(content_type, o, args.max_review_pages)
             item_preview == search_results[idx]
         IN  /\ review_urls' = r.review_urls
             /\ IF r.raised
                THEN /\ by_type_exit' = "item_raised"
                     /\ pc' = "except"
                     /\ UNCHANGED <<idx, items_data_list, succeeded>>
                ELSE /\ items_data_list' =
                          IF NonEmpty(r.item_data)
                          THEN Append(items_data_list,
                                      [preview |-> item_preview, type |-> ItemType(content_type)])
                          ELSE items_data_list
                     /\ succeeded' = IF o.first = "ok" THEN succeeded \cup {item_preview}
                                                       ELSE succeeded
                     /\ idx' = idx + 1
                     /\ UNCHANGED <<pc, by_type_exit>>
    /\ UNCHANGED <<script, args, runner, todo_types, content_type, search_results,
                   found_results, all_data, data, files, client_closed, now>>
    /\ UNCHANGED varsReddit
    /\ UNCHANGED othersEntry

\* scrape_by_type: "return items_data_list"
ByTypeReturn ==
    /\ pc = "loop"
    /\ idx > Len(search_results)
    /\ by_type_exit' = "returned"
    /\ pc' = "return"
    /\ UNCHANGED <<script, args, runner, todo_types, content_type, search_results,
                   found_results, idx, items_data_list, review_urls, succeeded,
                   all_data, data, files, client_closed, now>>
    /\ UNCHANGED varsReddit
    /\ UNCHANGED othersEntry

(***************************************************************************)
(* scraper-runner.py and tripadvisor_scraper.main                          *)
(***************************************************************************)
\* scraper-runner.py main: dispatch on --scraper and --type
RunnerMain ==
    /\ script = "runner_main"
    /\ pc = "main"
    /\ IF args.scraper = "puppeteer"
       THEN pc' = "done" /\ UNCHANGED <<runner, todo_types>>
       ELSE /\ pc' = "search"
            /\ runner' = IF args.type = "all" THEN "run_all_types_scraper"
                                              ELSE "run_httpx_scraper"
            /\ todo_types' = IF args.type = "all" THEN ContentTypes ELSE <<args.type>>
    /\ UNCHANGED <<script, args, all_data, data, files, client_closed, now>>
    /\ UNCHANGED varsByType
    /\ UNCHANGED varsReddit
    /\ UNCHANGED othersEntry

\* run_httpx_scraper called directly (as the quick tests do): "else:
\* print('Unsupported content type'); return []" inside the try block
RunHttpxScraperCall ==
    /\ script = "run_httpx_scraper"
    /\ pc = "main"
    /\ runner' = "run_httpx_scraper"
    /\ IF args.type \in SeqToSet(ContentTypes)
       THEN /\ pc' = "search"
            /\ todo_types' = <<args.type>>
            /\ UNCHANGED data
       ELSE /\ pc' = "finally"
            /\ todo_types' = <<>>
            /\ data' = <<>>
    /\ UNCHANGED <<script, args, all_data, files, client_closed, now>>
    /\ UNCHANGED varsByType
    /\ UNCHANGED varsReddit
    /\ UNCHANGED othersEntry

\* tripadvisor_scraper.main: hotels, attractions, restaurants with fixed limits
TripAdvisorMain ==
    /\ script = "tripadvisor_main"
    /\ pc = "main"
    /\ pc' = "search"
    /\ runner' = "tripadvisor_main"
    /\ todo_types' = ContentTypes
    /\ UNCHANGED <<script, args, all_data, data, files, client_closed, now>>
    /\ UNCHANGED varsByType
    /\ UNCHANGED varsReddit
    /\ UNCHANGED othersEntry

\* The runner receives what scrape_by_type returned.
RunnerReturn ==
    /\ pc = "return"
    /\ IF runner = "run_httpx_scraper"
       THEN /\ data' = items_data_list
            /\ pc' = "finally"
            /\ UNCHANGED <<all_data, todo_types>>
       ELSE /\ all_data' = (content_type :> items_data_list) @@ all_data
            /\ todo_types' = Tail(todo_types)
            /\ IF Tail(todo_types) # <<>>
               THEN pc' = "search" /\ UNCHANGED data
               ELSE IF runner = "run_all_types_scraper"
               THEN pc' = "finally" /\ data' = all_data'
               ELSE pc' = "save_all" /\ UNCHANGED data
    /\ UNCHANGED <<script, args, runner, files, client_closed, now>>
    /\ UNCHANGED varsByType
    /\ UNCHANGED varsReddit
    /\ UNCHANGED othersEntry

\* "except Exception": run_httpx_scraper returns [], run_all_types_scraper
\* returns {}; tripadvisor_scraper.main has no except clause.
RunnerExcept ==
    /\ pc = "except"
    /\ IF runner = "tripadvisor_main"
       THEN pc' = "finally_raise" /\ UNCHANGED data
       ELSE pc' = "finally" /\ data' = <<>>
    /\ UNCHANGED <<script, args, runner, todo_types, all_data, files, client_closed, now>>
    /\ UNCHANGED varsByType
    /\ UNCHANGED varsReddit
    /\ UNCHANGED othersEntry

\* tripadvisor_scraper.main: json.dump(all_data) to tripadvisor_all_data.json
TripAdvisorSave ==
    /\ pc = "save_all"
    /\ files' = Append(files, [name |-> "tripadvisor_all_data", stamp |-> None])
    /\ data' = all_data
    /\ pc' = "finally"
    /\ UNCHANGED <<script, args, runner, todo_types, all_data, client_closed, now>>
    /\ UNCHANGED varsByType
    /\ UNCHANGED varsReddit
    /\ UNCHANGED othersEntry

LeaveClientOpen(closed) == closed

\* TripAdvisorScraper.close: "await self.client.aclose()"
CloseClient(closed) == closed + 1

\* "finally: await scraper.close()"
RunnerFinally ==
    /\ pc \in {"finally", "finally_raise"}
    /\ client_closed' = CloseClient(client_closed)
    /\ pc' = IF pc = "finally_raise" THEN "crashed"
             ELSE IF script = "runner_main" THEN "after_run" ELSE "done"
    /\ UNCHANGED <<script, args, runner, todo_types, all_data, data, files, now>>
    /\ UNCHANGED varsByType
    /\ UNCHANGED varsReddit
    /\ UNCHANGED othersEntry

\* scraper-runner.py save_results: nothing is written for empty data
RunnerSaveResults(d) ==
    IF ~NonEmpty(d)
    THEN files
    ELSE Append(files, [name |-> "tripadvisor_" \o args.type \o "_" \o args.scraper,
                        stamp |-> Some(now)])

\* scraper-runner.py main: "if args.save and data: save_results(...)"
RunnerShouldSave == args.save /\ NonEmpty(data)

RunnerSave ==
    /\ pc = "after_run"
    /\ files' = IF RunnerShouldSave THEN RunnerSaveResults(data) ELSE files
    /\ pc' = "done"
    /\ UNCHANGED <<script, args, runner, todo_types, all_data, data, client_closed, now>>
    /\ UNCHANGED varsByType
    /\ UNCHANGED varsReddit
    /\ UNCHANGED othersEntry

(***************************************************************************)
(* reddit_travel_scraper.py                                                *)
(***************************************************************************)
\* len(self._generate_search_terms(location))
NumSearchTerms == 10

\* The post_data a search can add: [id, score].  The same post can come back
\* from a later search with another score.
PostData == [id : 1..2, score : 1..2]

\* {post['id']: post for post in posts}.values(): one entry per id, at the
\* position of the id's first occurrence, holding the id's last occurrence.
RECURSIVE FirstIds(_, _)
FirstIds(ps, seen) ==
    IF ps = <<>> THEN <<>>
    ELSE IF Head(ps).id \in seen THEN FirstIds(Tail(ps), seen)
    ELSE <<Head(ps).id>> \o FirstIds(Tail(ps), seen \cup {Head(ps).id})

LastWithId(ps, i) ==
    ps[CHOOSE k \in DOMAIN ps : ps[k].id = i /\ \A j \in DOMAIN ps : ps[j].id = i => j <= k]

UniquePosts(ps) ==
    LET ids == FirstIds(ps, {}) IN [k \in DOMAIN ids |-> LastWithId(ps, ids[k])]

\* sorted(unique_posts, key=lambda x: x['score'], reverse=True): a stable
\* sort, descending by score
RECURSIVE InsertByScore(_, _)
InsertByScore(sorted, p) ==
    IF sorted = <<>> THEN <<p>>
    ELSE IF Head(sorted).score >= p.score
         THEN <<Head(sorted)>> \o InsertByScore(Tail(sorted), p)
         ELSE <<p>> \o sorted

KeepOrder(ps) == ps

RECURSIVE SortByScore(_)
SortByScore(ps) ==
    IF ps = <<>> THEN <<>>
    ELSE InsertByScore(SortByScore(SubSeq(ps, 1, Len(ps) - 1)), ps[Len(ps)])

\* reddit_travel_scraper.main: "if not os.getenv('REDDIT_CLIENT_ID'): return"
RedditMain ==
    /\ script = "reddit_main"
    /\ pc = "main"
    /\ pc' = IF args.credentials THEN "subreddit" ELSE "done"
    /\ UNCHANGED <<script, args, runner, todo_types, all_data, data, files, client_closed, now>>
    /\ UNCHANGED varsByType
    /\ UNCHANGED varsReddit
    /\ UNCHANGED othersEntry

\* search_travel_posts: "for subreddit_name in subreddits", outer try.  An
\* inaccessible subreddit is logged and the loop goes to the next one.
OpenSubreddit ==
    /\ pc = "subreddit"
    /\ subreddit_idx <= args.subreddits
    /\ \/ pc' = "term" /\ term_idx' = 1 /\ UNCHANGED subreddit_idx
       \/ subreddit_idx' = subreddit_idx + 1 /\ UNCHANGED <<pc, term_idx>>
    /\ UNCHANGED <<script, args, runner, todo_types, all_data, data, files, client_closed, now>>
    /\ UNCHANGED varsByType
    /\ UNCHANGED <<posts, sleep_due, unslept_search, sorted_posts>>
    /\ UNCHANGED othersEntry

\* search_travel_posts: one iteration of "for search_term in search_terms".
\* subreddit.search is requested and its results are appended; time.sleep(1)
\* is the last statement of the try block, so it runs only when nothing raised.
SearchTerm ==
    /\ pc = "term"
    /\ term_idx <= NumSearchTerms
    /\ \E found \in {<<>>} \cup {<<p>> : p \in PostData}, raised \in BOOLEAN :
         /\ Len(posts) + Len(found) <= MaxPosts
         /\ posts' = posts \o found
         /\ unslept_search' = (unslept_search \/ sleep_due)
         /\ sleep_due' = raised
    /\ term_idx' = term_idx + 1
    /\ UNCHANGED <<script, args, pc, runner, todo_types, all_data, data, files, client_closed, now>>
    /\ UNCHANGED varsByType
    /\ UNCHANGED <<subreddit_idx, sorted_posts>>
    /\ UNCHANGED othersEntry

\* search_travel_posts: the inner loop is exhausted, next subreddit
NextSubreddit ==
    /\ pc = "term"
    /\ term_idx > NumSearchTerms
    /\ subreddit_idx' = subreddit_idx + 1
    /\ pc' = "subreddit"
    /\ UNCHANGED <<script, args, runner, todo_types, all_data, data, files, client_closed, now>>
    /\ UNCHANGED varsByType
    /\ UNCHANGED <<term_idx, posts, sleep_due, unslept_search, sorted_posts>>
    /\ UNCHANGED othersEntry

\* search_travel_posts: remove duplicates, sort, "return sorted_posts[:limit]"
ReturnPosts ==
    /\ pc = "subreddit"
    /\ subreddit_idx > args.subreddits
    /\ sorted_posts' = Slice(SortByScore(UniquePosts(posts)), args.limit)
    /\ pc' = "posts"
    /\ UNCHANGED <<script, args, runner, todo_types, all_data, data, files, client_closed, now>>
    /\ UNCHANGED varsByType
    /\ UNCHANGED <<subreddit_idx, term_idx, posts, sleep_due, unslept_search>>
    /\ UNCHANGED othersEntry

NoPostsNever(found_posts) == FALSE

\* reddit_travel_scraper.main: "if not posts: return"
NoPosts(found_posts) == ~NonEmpty(found_posts)

\* reddit_travel_scraper.main after the search, with RedditTravelScraper.save_results
RedditSave ==
    /\ pc = "posts"
    /\ files' = IF NoPosts(sorted_posts) THEN files
                ELSE Append(files, [name |-> "reddit_travel", stamp |-> Some(now)])
    /\ pc' = "done"
    /\ UNCHANGED <<script, args, runner, todo_types, all_data, data, client_closed, now>>
    /\ UNCHANGED varsByType
    /\ UNCHANGED varsReddit
    /\ UNCHANGED othersEntry

(***************************************************************************)
(* The entry points' command lines and initial state.                      *)
(***************************************************************************)
RunnerArgs ==
    [type : {"hotels", "attractions", "restaurants", "all"},
     max_items : {Some(n) : n \in 0..MaxArg},
     max_review_pages : {Some(n) : n \in 0..MaxArg},
     scraper : {"httpx", "puppeteer"},
     save : BOOLEAN]

\* tripadvisor_scraper.main passes max 2 items and 1 review page per type
TripAdvisorMainArgs ==
    [type : {"all"}, max_items : {Some(2)}, max_review_pages : {Some(1)},
     scraper : {"httpx"}, save : {TRUE}]

RedditArgs ==
    [credentials : BOOLEAN, subreddits : 0..MaxSubreddits, limit : 0..MaxPosts]

\* run_httpx_scraper(location, content_type, max_items, max_review_pages)
\* with any content type, a supported one or not
DirectCallArgs ==
    [type : SeqToSet(ContentTypes) \cup {"events"}, max_items : {Some(1)},
     max_review_pages : {Some(1)}, scraper : {"httpx"}, save : {FALSE}]

\* The entry-point variables before anything ran.
EntryFresh ==
    /\ runner = "none"
    /\ todo_types = <<>>
    /\ content_type = "none"
    /\ search_results = <<>>
    /\ found_results = <<>>
    /\ idx = 1
    /\ items_data_list = <<>>
    /\ review_urls = <<>>
    /\ succeeded = {}
    /\ by_type_exit = "none"
    /\ all_data = <<>>
    /\ data = <<>>
    /\ files = <<>>
    /\ client_closed = 0
    /\ subreddit_idx = 1
    /\ term_idx = 1
    /\ posts = <<>>
    /\ sleep_due = FALSE
    /\ unslept_search = FALSE
    /\ sorted_posts = <<>>

InitEntry ==
    /\ script \in {"runner_main", "tripadvisor_main", "reddit_main", "run_httpx_scraper"}
    /\ args \in CASE script = "runner_main" -> RunnerArgs
                  [] script = "tripadvisor_main" -> TripAdvisorMainArgs
                  [] script = "run_httpx_scraper" -> DirectCallArgs
                  [] OTHER -> RedditArgs
    /\ pc = "main"
    /\ now \in 1..2
    /\ EntryFresh

\* No entry point runs.
ParkedEntry ==
    /\ script = "none"
    /\ args = <<>>
    /\ pc = "off"
    /\ now = 1
    /\ EntryFresh


(***************************************************************************)
(* Claims about the entry points (specification Spec).                     *)
(***************************************************************************)
Previews(items) == {items[k].preview : k \in DOMAIN items}

\* C1: in scrape_by_type an error while scraping one item (request failure,
\* bad status, parse or conversion error on its page) skips only that item:
\* the list handed back through run_httpx_scraper holds every item whose
\* scrape succeeded, before and after the failed one.
C1_ItemErrorSkipsOnlyThatItem ==
    (runner = "run_httpx_scraper" /\ pc = "after_run"
        /\ by_type_exit \in {"returned", "item_raised"})
    => succeeded \subseteq Previews(data)

\* C2 as claimed: every main entry point that completes normally has written
\* exactly one JSON file and its name carries a timestamp of the run.
C2_OneTimestampedFilePerRun ==
    pc = "done" => (Len(files) = 1 /\ files[1].stamp = Some(now))

\* C2 as amended: a main entry point that completes normally has written at
\* most one JSON file.  reddit_travel_scraper.main writes one, timestamped,
\* exactly when the credentials are present and posts were found;
\* scraper-runner.py main writes one, timestamped, exactly when the httpx
\* scraper ran with --save and returned non-empty data; tripadvisor_scraper.main
\* always writes one, named tripadvisor_all_data.json, without a timestamp.
C2_AtMostOneFilePerRun ==
    pc = "done" =>
        /\ Len(files) <= 1
        /\ script = "reddit_main" =>
             /\ Len(files) = 1 <=> (args.credentials /\ sorted_posts # <<>>)
             /\ \A k \in DOMAIN files : files[k].stamp = Some(now)
        /\ script = "runner_main" =>
             /\ Len(files) = 1 <=>
                   (args.scraper = "httpx" /\ args.save /\ DOMAIN data # {})
             /\ \A k \in DOMAIN files : files[k].stamp = Some(now)
        /\ script = "tripadvisor_main" =>
             files = <<[name |-> "tripadvisor_all_data", stamp |-> None]>>

\* C2 witness: scraper-runner.py main --type all --save completed and wrote
\* its timestamped file.
C2_Witness ==
    /\ pc = "done"
    /\ script = "runner_main"
    /\ args.type = "all"
    /\ Len(files) = 1
    /\ files[1].stamp = Some(now)

\* C8: in search_travel_posts any two consecutive subreddit.search requests
\* are separated by the one-second sleep, also after a search that raised.
C8_SleepBetweenSearches == ~unslept_search

\* C9: for every max_items >= 0 scrape_by_type returns at most max_items
\* items, taken from the first max_items previews of the search.
C9_AtMostMaxItems ==
    by_type_exit = "returned" =>
        /\ Len(items_data_list) <= args.max_items[1]
        /\ Previews(items_data_list) \subseteq SeqToSet(Slice(found_results, args.max_items[1]))

\* C10: for every max_review_pages >= 0 each of scrape_hotel,
\* scrape_attraction and scrape_restaurant requests at most
\* max(0, max_review_pages - 1) additional review pages.
C10_AtMostMaxReviewPages ==
    by_type_exit # "none" =>
        Len(review_urls) <= Max(0, args.max_review_pages[1] - 1)

(***************************************************************************)
(* tripadvisor_advanced_isla_verde.py: TripAdvisorAdvancedScraper          *)
(***************************************************************************)
\* attraction_query_ids, in the order they are tried
attraction_query_ids == <<"c2e5695e939386e4", "cd2c52018de2e10d", "4f2a0fdbc96b4295">>

\* get_isla_verde_knowledge_base(): the names of the hardcoded entries
IslaVerdeKnowledgeBase ==
    <<"El Yunque National Forest", "Isla Verde Beach",
      "Laguna Grande Bioluminescent Bay", "Pinones Food Kioskos",
      "Flamenco Beach, Culebra">>

\* Attraction names a live response can hold.
LiveNames == {"Isla Verde Beach", "Casa Bacardi"}

\* JSON values of a result entry's "text" field that are not strings.
JsonNull == "<json null>"
Missing == "<missing key>"

\* str.lower() on the texts a response can hold
Lower(text) ==
    CASE text = "Isla Verde Puerto Rico" -> "isla verde puerto rico"
      [] text = "ISLA VERDE PUERTO RICO, Carolina" -> "isla verde puerto rico, carolina"
      [] text = "San Juan" -> "san juan"
      [] text = "El Yunque National Forest" -> "el yunque national forest"
      [] text = "Flamenco Beach, Culebra" -> "flamenco beach, culebra"
      [] text = "Mosquito Bay, Vieques" -> "mosquito bay, vieques"
      [] text = "Old San Juan" -> "old san juan"
      [] text = "OLD SAN JUAN" -> "old san juan"
      [] text = "Casa Bacardi" -> "casa bacardi"
      [] text = "Laguna Grande Bioluminescent Bay" -> "laguna grande bioluminescent bay"
      [] text = "Camuy Caves" -> "camuy caves"
      [] text = "Arecibo Observatory" -> "arecibo observatory"
      [] text = "Isla Verde Beach" -> "isla verde beach"
      [] text = "Pinones Food Kioskos" -> "pinones food kioskos"
      [] text = "El Morro" -> "el morro"
      [] text = "Marmalade Restaurant & Wine Bar" -> "marmalade restaurant & wine bar"
      [] text = "Jose Enrique" -> "jose enrique"
      [] text = "Koko" -> "koko"
      [] text = "KOKO" -> "koko"
      [] text = "Santaella" -> "santaella"
      [] text = "La Placita de Santurce" -> "la placita de santurce"
      [] text = "Oceano" -> "oceano"
      [] text = "Barrachina" -> "barrachina"
      [] text = "Luulo" -> "luulo"
      [] text = "El Convento Hotel Restaurant" -> "el convento hotel restaurant"
      [] text = "Raices" -> "raices"
      [] OTHER -> text

\* needle in haystack, for lower-cased texts
Contains(haystack, needle) ==
    \/ needle = ""
    \/ haystack = needle
    \/ haystack = "isla verde puerto rico, carolina" /\ needle = "isla verde puerto rico"

\* result.get("text", ""): the default applies to a missing key only
GetText(entry) == IF entry.text = Missing THEN "" ELSE entry.text

\* result.get("text"): None for a missing key and for null
GetName(entry) == IF entry.text \in {Missing, JsonNull} THEN None ELSE entry.text

LocationEntry(entry) == [locationId |-> entry.locationId, name |-> GetName(entry)]

\* search_location_graphql, "for result in results": the index of the first
\* entry whose text contains the location, 0 when there is none, -1 when
\* .lower() is called on a null text before a match (AttributeError).
RECURSIVE BestMatch(_, _, _)
BestMatch(results, location, k) ==
    IF k > Len(results) THEN 0
    ELSE IF GetText(results[k]) = JsonNull THEN -1
    ELSE IF Contains(Lower(GetText(results[k])), Lower(location)) THEN k
    ELSE BestMatch(results, location, k + 1)

\* What search_location_graphql returns: None when the request raised, the
\* status is not 200, the result list is empty or the loop raised; else the
\* best match, else the first result.
SearchLocationResult(response, location) ==
    IF response.kind # "ok" THEN None
    ELSE LET m == BestMatch(response.results, location, 1) IN
         IF m = -1 THEN None
         ELSE IF m > 0 THEN LocationEntry(response.results[m])
         ELSE IF response.results # <<>> THEN LocationEntry(response.results[1])
         ELSE None

ResultEntries ==
    [text : {"Isla Verde Puerto Rico", "ISLA VERDE PUERTO RICO, Carolina", "San Juan",
             JsonNull, Missing},
     locationId : {147320}]

LocationResponses ==
    [kind : {"exception", "status_403", "status_other"}, results : {<<>>}]
    \cup [kind : {"ok"},
          results : UNION {[1..n -> ResultEntries] : n \in 0..MaxLocationResults}]

\* scrape_isla_verde_complete: the location search; without a location the
\* function returns {"error": "Location not found"}.
SearchLocation ==
    /\ iv_pc = "start"
    /\ \E response \in LocationResponses :
         /\ location_response' = Some(response)
         /\ location_data' = SearchLocationResult(response, "Isla Verde Puerto Rico")
         /\ IF location_data' = None
            THEN /\ result' = [error |-> "Location not found"]
                 /\ iv_pc' = "done"
            ELSE /\ iv_pc' = "query"
                 /\ UNCHANGED result
    /\ UNCHANGED <<query_idx, requests, query_outcomes, attractions>>
    /\ UNCHANGED othersIsla

YieldsAlways(kind, found) == TRUE

\* scrape_attractions_graphql: "if response.status_code == 200" and "if
\* self.extract_attractions_from_response(data)"
YieldsAttractions(kind, found) == kind = "ok" /\ found # <<>>

\* scrape_attractions_graphql: one iteration of "for query_id in
\* attraction_query_ids".  A 200 response with attractions returns them; any
\* other response sleeps and goes on, an exception goes on at once.
TryQueryId ==
    /\ iv_pc = "query"
    /\ query_idx <= Len(attraction_query_ids)
    /\ requests' = Append(requests, attraction_query_ids[query_idx])
    /\ \E kind \in {"exception", "status_other", "ok"},
          found \in {<<>>} \cup {<<a>> : a \in LiveNames}
                           \cup {<<a, b>> : a \in LiveNames, b \in LiveNames} :
         /\ kind # "ok" => found = <<>>
         /\ query_outcomes' =
               Append(query_outcomes,
                      IF kind = "ok" /\ found # <<>> THEN "attractions" ELSE kind)
         /\ IF YieldsAttractions(kind, found)
            THEN /\ attractions' = found
                 /\ iv_pc' = "merge"
                 /\ UNCHANGED query_idx
            ELSE /\ query_idx' = query_idx + 1
                 /\ UNCHANGED <<attractions, iv_pc>>
    /\ UNCHANGED <<location_response, location_data, result>>
    /\ UNCHANGED othersIsla

\* scrape_attractions_graphql: every query id was tried, "return []"
NoAttractionsFound ==
    /\ iv_pc = "query"
    /\ query_idx > Len(attraction_query_ids)
    /\ attractions' = <<>>
    /\ iv_pc' = "merge"
    /\ UNCHANGED <<location_response, location_data, query_idx, requests,
                   query_outcomes, result>>
    /\ UNCHANGED othersIsla

\* scrape_isla_verde_complete: "if not attractions: attractions =
\* self.get_isla_verde_knowledge_base()"
WithFallback(live) == IF live = <<>> THEN IslaVerdeKnowledgeBase ELSE live

\* scrape_isla_verde_complete: the returned dict
BuildResult ==
    /\ iv_pc = "merge"
    /\ result' = [destination |-> "Isla Verde, Puerto Rico",
                  location_data |-> location_data,
                  attractions |-> WithFallback(attractions),
                  total_attractions |-> Len(WithFallback(attractions))]
    /\ iv_pc' = "done"
    /\ UNCHANGED <<location_response, location_data, query_idx, requests,
                   query_outcomes, attractions>>
    /\ UNCHANGED othersIsla

InitIsla ==
    /\ iv_pc = "start"
    /\ location_response = None
    /\ location_data = None
    /\ query_idx = 1
    /\ requests = <<>>
    /\ query_outcomes = <<>>
    /\ attractions = <<>>
    /\ result = <<>>

ParkedIsla ==
    /\ iv_pc = "off"
    /\ location_response = None
    /\ location_data = None
    /\ query_idx = 1
    /\ requests = <<>>
    /\ query_outcomes = <<>>
    /\ attractions = <<>>
    /\ result = <<>>

\* C3: whenever live scraping yields no attractions (the location search
\* fails or returns nothing, or every attraction query returns nothing) the
\* result's attractions are exactly the 5 knowledge-base entries,
\* total_attractions is 5 and the result carries no error field.
C3_FallbackWhenNothingScraped ==
    (iv_pc = "done" /\ attractions = <<>>) =>
        /\ "error" \notin DOMAIN result
        /\ result.attractions = IslaVerdeKnowledgeBase
        /\ result.total_attractions = 5

\* C19: on a 200 response with a non-empty result list search_location_graphql
\* returns the first result whose text contains the location
\* case-insensitively, else the first result; it returns None only when the
\* request failed, the status is not 200 or the list is empty, whatever the
\* entries look like (a text that is missing or null contains nothing).
C19_NoneOnlyWithoutResults ==
    location_response # None =>
        LET resp == location_response[1]
            entries == resp.results
            Matches(k) ==
                /\ entries[k].text \notin {Missing, JsonNull}
                /\ Contains(Lower(entries[k].text), Lower("Isla Verde Puerto Rico"))
        IN  /\ (resp.kind = "ok" /\ entries # <<>>) =>
                  IF \E k \in DOMAIN entries : Matches(k)
                  THEN \E k \in DOMAIN entries :
                          /\ Matches(k)
                          /\ \A j \in 1..(k - 1) : ~Matches(j)
                          /\ location_data = LocationEntry(entries[k])
                  ELSE location_data = LocationEntry(entries[1])
            /\ location_data = None => (resp.kind # "ok" \/ entries = <<>>)

\* C20: scrape_attractions_graphql posts the query ids in the listed order;
\* only the last post made can have yielded attractions, and then they are
\* what is returned and no later id is posted; [] is returned only after all
\* ids were posted; a post that raised is followed by the next id.
C20_QueryIdsInOrderUntilFirstYield ==
    /\ Len(requests) <= Len(attraction_query_ids)
    /\ requests = SubSeq(attraction_query_ids, 1, Len(requests))
    /\ Len(query_outcomes) = Len(requests)
    /\ \A k \in 1..(Len(query_outcomes) - 1) : query_outcomes[k] # "attractions"
    /\ iv_pc = "query" => \A k \in DOMAIN query_outcomes : query_outcomes[k] # "attractions"
    /\ (iv_pc \in {"merge", "done"} /\ location_data # None) =>
          IF attractions # <<>>
          THEN query_outcomes[Len(query_outcomes)] = "attractions"
          ELSE /\ requests = attraction_query_ids
               /\ \A k \in DOMAIN query_outcomes : query_outcomes[k] # "attractions"

\* C20 witness: the first post raised, the second one yielded attractions,
\* which were returned, and the third id was never posted.
C20_Witness ==
    /\ iv_pc = "done"
    /\ query_outcomes = <<"exception", "attractions">>
    /\ requests = SubSeq(attraction_query_ids, 1, 2)
    /\ attractions # <<>>
    /\ result.attractions = attractions



(***************************************************************************)
(* isla_verde_simple_scraper.py: IslaVerdeScraper.test_url_access, called  *)
(* by scrape_isla_verde_comprehensive for each of its test_urls            *)
(***************************************************************************)
\* test_url_access(url, max_retries=3); the caller passes no max_retries
max_retries == 3

test_urls ==
    <<"https://www.tripadvisor.com/Attractions-g147320-Activities-Carolina_Puerto_Rico.html",
      "https://www.tripadvisor.com/Tourism-g147320-Carolina_Puerto_Rico-Vacations.html">>

\* How one client.get(url) can end.
AccessOutcomes == {"200", "403", "other_status", "exception"}

AccessNeverGranted(outcome) == FALSE

\* test_url_access: "if response.status_code == 200: return True"
AccessGranted(outcome) == outcome = "200"

\* test_url_access: one iteration of "for attempt in range(max_retries)".
\* A 200 returns True and the caller breaks out of its loop over test_urls;
\* a 403 or an exception sleeps, and every other outcome goes straight on.
TestUrlAttempt ==
    /\ rt_pc = "test_url_access"
    /\ attempt < max_retries
    /\ \E outcome \in AccessOutcomes :
         /\ url_responses' = [url_responses EXCEPT ![url_idx] = Append(@, outcome)]
         /\ IF AccessGranted(outcome)
            THEN /\ can_access_tripadvisor' = TRUE
                 /\ rt_pc' = "done"
                 /\ UNCHANGED attempt
            ELSE /\ attempt' = attempt + 1
                 /\ UNCHANGED <<can_access_tripadvisor, rt_pc>>
    /\ UNCHANGED <<url_idx, top_posts, post_ids, info_calls, submission_calls,
                   submissions, submission_idx, posts_with_content, output_files>>
    /\ UNCHANGED othersRetry

\* test_url_access: the loop is exhausted, "return False"; the caller goes
\* to its next test URL.
TestUrlGiveUp ==
    /\ rt_pc = "test_url_access"
    /\ attempt >= max_retries
    /\ IF url_idx < Len(test_urls)
       THEN url_idx' = url_idx + 1 /\ attempt' = 0 /\ UNCHANGED rt_pc
       ELSE rt_pc' = "done" /\ UNCHANGED <<url_idx, attempt>>
    /\ UNCHANGED <<url_responses, can_access_tripadvisor, top_posts, post_ids,
                   info_calls, submission_calls, submissions, submission_idx,
                   posts_with_content, output_files>>
    /\ UNCHANGED othersRetry

(***************************************************************************)
(* extract_reddit_content_batch.py: extract_full_reddit_content_batch      *)
(***************************************************************************)
\* extract_post_id_from_url over curated_data['top_posts']: the ids found
RECURSIVE ExtractPostIds(_)
ExtractPostIds(curated) ==
    IF curated = <<>> THEN <<>>
    ELSE IF Head(curated) # 0
         THEN <<Head(curated)>> \o ExtractPostIds(Tail(curated))
         ELSE ExtractPostIds(Tail(curated))

RECURSIVE SelectIds(_, _)
SelectIds(ids, keep) ==
    IF ids = <<>> THEN <<>>
    ELSE IF Head(ids) \in keep
         THEN <<Head(ids)>> \o SelectIds(Tail(ids), keep)
         ELSE SelectIds(Tail(ids), keep)

\* Credentials, connection and the curated file: any failure returns None
\* before a request is made.
BatchLoad ==
    /\ rt_pc = "batch"
    /\ \/ rt_pc' = "done" /\ UNCHANGED post_ids
       \/ post_ids' = ExtractPostIds(top_posts) /\ rt_pc' = "info"
    /\ UNCHANGED <<url_idx, attempt, url_responses, can_access_tripadvisor, top_posts,
                   info_calls, submission_calls, submissions, submission_idx,
                   posts_with_content, output_files>>
    /\ UNCHANGED othersRetry

\* "submissions = list(reddit.info(fullnames=fullnames))": one call for all
\* ids; when it raises, one reddit.submission(id=post_id) per post id.
BatchInfo ==
    /\ rt_pc = "info"
    /\ info_calls' = Append(info_calls, post_ids)
    /\ \/ \E existing \in SUBSET SeqToSet(post_ids) :
            /\ submissions' = SelectIds(post_ids, existing)
            /\ UNCHANGED submission_calls
       \/ \E failing \in SUBSET SeqToSet(post_ids) :
            /\ submission_calls' = post_ids
            /\ submissions' = SelectIds(post_ids, SeqToSet(post_ids) \ failing)
    /\ submission_idx' = 1
    /\ rt_pc' = "process"
    /\ UNCHANGED <<url_idx, attempt, url_responses, can_access_tripadvisor, top_posts,
                   post_ids, posts_with_content, output_files>>
    /\ UNCHANGED othersRetry

\* One iteration of "for i, submission in enumerate(submissions, 1)": the
\* post and its top comments are read; an error skips the submission.
BatchProcess ==
    /\ rt_pc = "process"
    /\ submission_idx <= Len(submissions)
    /\ \/ posts_with_content' = Append(posts_with_content, submissions[submission_idx])
       \/ UNCHANGED posts_with_content
    /\ submission_idx' = submission_idx + 1
    /\ UNCHANGED <<rt_pc, url_idx, attempt, url_responses, can_access_tripadvisor,
                   top_posts, post_ids, info_calls, submission_calls, submissions,
                   output_files>>
    /\ UNCHANGED othersRetry

\* json.dump(output_data) to puerto_rico_reddit_top20_batch_optimized.json
BatchSave ==
    /\ rt_pc = "process"
    /\ submission_idx > Len(submissions)
    /\ output_files' = output_files + 1
    /\ rt_pc' = "done"
    /\ UNCHANGED <<url_idx, attempt, url_responses, can_access_tripadvisor, top_posts,
                   post_ids, info_calls, submission_calls, submissions, submission_idx,
                   posts_with_content>>
    /\ UNCHANGED othersRetry

RetryFresh ==
    /\ url_idx = 1
    /\ attempt = 0
    /\ url_responses = [u \in DOMAIN test_urls |-> <<>>]
    /\ can_access_tripadvisor = FALSE
    /\ post_ids = <<>>
    /\ info_calls = <<>>
    /\ submission_calls = <<>>
    /\ submissions = <<>>
    /\ submission_idx = 1
    /\ posts_with_content = <<>>
    /\ output_files = 0

InitRetry ==
    /\ \/ rt_pc = "test_url_access" /\ top_posts = <<>>
       \/ rt_pc = "batch" /\ top_posts \in UNION {[1..n -> 0..2] : n \in 0..MaxCurated}
    /\ RetryFresh

ParkedRetry ==
    /\ rt_pc = "off"
    /\ top_posts = <<>>
    /\ RetryFresh

\* Number of requests that name entry k of post_ids
RequestsNaming(k) ==
    Cardinality({c \in DOMAIN info_calls : k \in DOMAIN info_calls[c]})
    + (IF k \in DOMAIN submission_calls THEN 1 ELSE 0)

NumGuideSearches == 10

\* get_knowledge_base_attractions() / get_knowledge_base_restaurants(): names
KnowledgeBase(kind) ==
    IF kind = "attractions"
    THEN <<"El Yunque National Forest", "Flamenco Beach, Culebra",
           "Mosquito Bay, Vieques", "Old San Juan", "Casa Bacardi",
           "Laguna Grande Bioluminescent Bay", "Camuy Caves",
           "Arecibo Observatory", "Isla Verde Beach", "Pinones Food Kioskos">>
    ELSE <<"Marmalade Restaurant & Wine Bar", "Jose Enrique", "Koko", "Santaella",
           "La Placita de Santurce", "Pinones Food Kioskos", "Oceano",
           "Barrachina", "Luulo", "El Convento Hotel Restaurant">>

\* Names a live search can return.
ScrapedNames(kind) ==
    IF kind = "attractions"
    THEN {"Old San Juan", "OLD SAN JUAN", "old san juan", "El Morro"}
    ELSE {"Koko", "KOKO", "koko", "Raices"}

\* scrape_all_attractions / scrape_all_restaurants: one search, whose results
\* (none when the request fails) extend the list; then sleep(2).
GuideSearch ==
    /\ guide_pc = "scrape"
    /\ search_idx <= NumGuideSearches
    /\ \E found \in UNION {[1..n -> ScrapedNames(guide_kind)] : n \in 0..MaxFound} :
         /\ Len(scraped) + Len(found) <= MaxScraped
         /\ scraped' = scraped \o [k \in DOMAIN found |-> [name |-> found[k]]]
    /\ search_idx' = search_idx + 1
    /\ UNCHANGED <<guide_pc, guide_kind, final, guide_counts>>
    /\ UNCHANGED othersGuide

\* "scraped_names = {attr['name'].lower() for attr in scraped_attractions}"
ScrapedLowerNames(entries) == {Lower(entries[k].name) : k \in DOMAIN entries}

\* "for attraction in knowledge_base: if attraction['name'].lower() not in
\* scraped_names: final_attractions.append(...)"
RECURSIVE KnowledgeBaseAdditions(_, _)
KnowledgeBaseAdditions(kb, scraped_names) ==
    IF kb = <<>> THEN <<>>
    ELSE IF Lower(Head(kb)) \notin scraped_names
         THEN <<[name |-> Head(kb), data_source |-> "knowledge_base"]>>
              \o KnowledgeBaseAdditions(Tail(kb), scraped_names)
         ELSE KnowledgeBaseAdditions(Tail(kb), scraped_names)

MergeGuideKeepAll(entries, kb) ==
    [k \in DOMAIN entries |-> [name |-> entries[k].name, data_source |-> "tripadvisor_graphql"]]
    \o [k \in DOMAIN kb |-> [name |-> kb[k], data_source |-> "knowledge_base"]]

\* create_final_guide / create_restaurant_guide: the merged list
MergeGuide(entries, kb) ==
    [k \in DOMAIN entries |-> [name |-> entries[k].name, data_source |-> "tripadvisor_graphql"]]
    \o KnowledgeBaseAdditions(kb, ScrapedLowerNames(entries))

\* "scraped_attractions_count", "total_attractions" and "scraping_summary"
\* of the returned dict (scraped_restaurants_count, total_restaurants)
GuideCounts(entries, merged) ==
    [scraped_count |-> Len(entries),
     total |-> Len(merged),
     graphql_successful |-> Len(entries) > 0]

GuideMerge ==
    /\ guide_pc = "scrape"
    /\ search_idx > NumGuideSearches
    /\ final' = MergeGuide(scraped, KnowledgeBase(guide_kind))
    /\ guide_counts' = GuideCounts(scraped, final')
    /\ guide_pc' = "done"
    /\ UNCHANGED <<guide_kind, search_idx, scraped>>
    /\ UNCHANGED othersGuide

InitGuide ==
    /\ guide_pc = "scrape"
    /\ guide_kind \in {"attractions", "restaurants"}
    /\ search_idx = 1
    /\ scraped = <<>>
    /\ final = <<>>
    /\ guide_counts = None

ParkedGuide ==
    /\ guide_pc = "off"
    /\ guide_kind = "none"
    /\ search_idx = 1
    /\ scraped = <<>>
    /\ final = <<>>
    /\ guide_counts = None

\* C5: the final list built by create_final_guide (and by
\* create_restaurant_guide) contains no two entries whose names are equal
\* after lower-casing.
C5_NoDuplicateNames ==
    guide_pc = "done" =>
        \A i, j \in DOMAIN final :
            i # j => Lower(final[i].name) # Lower(final[j].name)

\* C21: the attractions list built by create_final_guide is all scraped
\* attractions in scrape order tagged tripadvisor_graphql, followed by exactly
\* the knowledge-base entries whose lower-cased name equals no scraped
\* attraction's lower-cased name, in knowledge-base order, tagged
\* knowledge_base; total_attractions is the list's length and
\* graphql_successful is true exactly when scraped_attractions_count > 0.
C21_ScrapedThenUnmatchedKnowledgeBase ==
    (guide_pc = "done" /\ guide_kind = "attractions") =>
        LET n == Len(scraped)
            unmatched ==
                SelectSeq(KnowledgeBase("attractions"),
                          LAMBDA name : \A k \in DOMAIN scraped :
                                            Lower(scraped[k].name) # Lower(name))
        IN  /\ Len(final) = n + Len(unmatched)
            /\ \A k \in 1..n :
                  final[k] = [name |-> scraped[k].name,
                              data_source |-> "tripadvisor_graphql"]
            /\ \A k \in 1..Len(unmatched) :
                  final[n + k] = [name |-> unmatched[k], data_source |-> "knowledge_base"]
            /\ guide_counts.scraped_count = n
            /\ guide_counts.total = Len(final)
            /\ guide_counts.graphql_successful <=> guide_counts.scraped_count > 0

\* C21 witness: a guide whose scraped attractions include "OLD SAN JUAN", so
\* that the knowledge base's "Old San Juan" was left out of the list.
C21_Witness ==
    /\ guide_pc = "done"
    /\ guide_kind = "attractions"
    /\ \E k \in DOMAIN scraped : scraped[k].name = "OLD SAN JUAN"
    /\ Len(final) = Len(scraped) + Len(KnowledgeBase("attractions")) - 1
    /\ guide_counts.graphql_successful


(***************************************************************************)
(* universal_city_scraper.py: UniversalCityScraper                         *)
(***************************************************************************)
\* _generate_restaurant_searches for city "Austin"
restaurant_searches(state) ==
    <<"Austin restaurants", "best restaurants Austin", "top restaurants Austin",
      "local food Austin", "dining Austin">>
    \o (IF state # ""
        THEN <<"restaurants Austin " \o state, "food Austin " \o state>>
        ELSE <<>>)
    \o <<"downtown Austin restaurants", "center Austin restaurants",
         "old town Austin restaurants", "historic Austin restaurants">>

\* _generate_attraction_searches for city "Austin"
attraction_searches(state) ==
    <<"things to do Austin", "attractions Austin", "sightseeing Austin",
      "tourist attractions Austin", "activities Austin">>
    \o (IF state # ""
        THEN <<"things to do Austin " \o state, "attractions Austin " \o state,
               "visit Austin " \o state>>
        ELSE <<>>)
    \o <<"museums Austin", "parks Austin", "tours Austin", "entertainment Austin",
         "nightlife Austin">>

CitySearches(ptype, state) ==
    IF ptype = "EATERY" THEN restaurant_searches(state) ELSE attraction_searches(state)

\* Result entries of a Typeahead response: placeType and url of "details"
\* (url "" when the key is missing, JsonNull when it is null) and "text".
RawResults ==
    { [placeType |-> "EATERY", url |-> "/Restaurant_Review-g1-d1-Reviews-Koko-Austin.html", text |-> "Koko"],
      [placeType |-> "", url |-> "/Restaurant_Review-g1-d1-Reviews-Koko-Austin.html", text |-> JsonNull],
      [placeType |-> "EATERY", url |-> "/Restaurant_Review-g1-d2-Reviews-Oceano-Austin.html", text |-> "Oceano"],
      [placeType |-> "EATERY", url |-> "", text |-> "Raices"],
      [placeType |-> "ATTRACTION", url |-> "", text |-> "El Morro"],
      [placeType |-> "EATERY", url |-> JsonNull, text |-> "Koko"],
      [placeType |-> "ATTRACTION", url |-> "/Attraction_Review-g1-d3-Reviews-El_Morro-Austin.html", text |-> "El Morro"],
      [placeType |-> "", url |-> "/Attraction_Review-g1-d3-Reviews-El_Morro-Austin.html", text |-> JsonNull],
      [placeType |-> "ATTRACTION", url |-> "/Attraction_Review-g1-d4-Reviews-Camuy_Caves-Austin.html", text |-> "Camuy Caves"],
      [placeType |-> "GEO", url |-> "/Tourism-g1-Austin-Vacations.html", text |-> "Austin"] }

\* marker in url, for the two markers search_places looks for
UrlContains(url, marker) ==
    \/ marker = "Restaurant_Review"
       /\ url \in {"/Restaurant_Review-g1-d1-Reviews-Koko-Austin.html",
                   "/Restaurant_Review-g1-d2-Reviews-Oceano-Austin.html"}
    \/ marker = "Attraction_Review"
       /\ url \in {"/Attraction_Review-g1-d3-Reviews-El_Morro-Austin.html",
                   "/Attraction_Review-g1-d4-Reviews-Camuy_Caves-Austin.html"}

\* str.title() on the content types search_places passes
Title(text) ==
    CASE text = "restaurant" -> "Restaurant"
      [] text = "attraction" -> "Attraction"
      [] OTHER -> text

\* extract_name_from_url
ExtractNameFromUrl(url, content_kind) ==
    CASE url = "/Restaurant_Review-g1-d1-Reviews-Koko-Austin.html" -> "Koko"
      [] url = "/Restaurant_Review-g1-d2-Reviews-Oceano-Austin.html" -> "Oceano"
      [] url = "/Attraction_Review-g1-d3-Reviews-El_Morro-Austin.html" -> "El Morro"
      [] url = "/Attraction_Review-g1-d4-Reviews-Camuy_Caves-Austin.html" -> "Camuy Caves"
      [] OTHER -> "Unknown " \o Title(content_kind)

TypeMatchesAny(ptype, entry) == TRUE

\* search_places: type_matches.get(place_type, False)
TypeMatches(ptype, entry) ==
    CASE ptype = "EATERY" ->
             entry.placeType = "EATERY" \/ UrlContains(entry.url, "Restaurant_Review")
      [] ptype = "ATTRACTION" ->
             entry.placeType = "ATTRACTION" \/ UrlContains(entry.url, "Attraction_Review")
      [] OTHER -> FALSE

\* search_places: place_data of an accepted entry
PlaceData(ptype, entry) ==
    [name |-> IF entry.text \in {JsonNull, "", "Unknown"}
              THEN ExtractNameFromUrl(entry.url,
                                      IF ptype = "EATERY" THEN "restaurant" ELSE "attraction")
              ELSE entry.text,
     tripadvisor_url |-> entry.url,
     place_type |-> entry.placeType]

\* search_places, "for result in search_results": a null url raises TypeError
\* in the "in url" tests, which ends the loop; the results accepted before it
\* are returned.
RECURSIVE FilterPlaces(_, _)
FilterPlaces(raw, ptype) ==
    IF raw = <<>> THEN <<>>
    ELSE IF Head(raw).url = JsonNull THEN <<>>
    ELSE IF TypeMatches(ptype, Head(raw))
         THEN <<PlaceData(ptype, Head(raw))>> \o FilterPlaces(Tail(raw), ptype)
         ELSE FilterPlaces(Tail(raw), ptype)

\* search_places: [] unless the status is 200
SearchPlaces(response, ptype) ==
    IF response.kind = "ok" THEN FilterPlaces(response.raw, ptype) ELSE <<>>

PlaceResponses ==
    [kind : {"exception", "status_403", "status_other"}, raw : {<<>>}]
    \cup [kind : {"ok"}, raw : UNION {[1..n -> RawResults] : n \in 0..MaxFound}]

KeepAnyUrl(url, seen) == url # ""

\* scrape_restaurants / scrape_attractions: "if url and url not in seen_urls"
KeepResult(url, seen) == url # "" /\ url \notin seen

\* scrape_restaurants / scrape_attractions: "for result in results"
RECURSIVE Deduplicate(_, _, _)
Deduplicate(results, kept, seen) ==
    IF results = <<>> THEN [kept |-> kept, seen |-> seen]
    ELSE LET url == Head(results).tripadvisor_url IN
         IF KeepResult(url, seen)
         THEN Deduplicate(Tail(results), Append(kept, Head(results)), seen \cup {url})
         ELSE Deduplicate(Tail(results), kept, seen)

\* scrape_restaurants / scrape_attractions: one search query, its results
\* deduplicated into the list, then sleep(2.5)
CitySearch ==
    /\ city_pc = "scrape"
    /\ city_query_idx <= Len(CitySearches(place_type, state_or_country))
    /\ \E response \in PlaceResponses :
         LET results == SearchPlaces(response, place_type)
             d == Deduplicate(results, all_places, seen_urls)
         IN  /\ Len(encountered) + Len(results) <= MaxSeen
             /\ encountered' = encountered \o results
             /\ all_places' = d.kept
             /\ seen_urls' = d.seen
    /\ city_query_idx' = city_query_idx + 1
    /\ UNCHANGED <<city_pc, state_or_country, place_type>>
    /\ UNCHANGED othersCity

\* scrape_restaurants / scrape_attractions: "return all_restaurants"
CityReturn ==
    /\ city_pc = "scrape"
    /\ city_query_idx > Len(CitySearches(place_type, state_or_country))
    /\ city_pc' = "done"
    /\ UNCHANGED <<state_or_country, place_type, city_query_idx, seen_urls,
                   all_places, encountered>>
    /\ UNCHANGED othersCity

InitCity ==
    /\ city_pc = "scrape"
    /\ state_or_country \in {"", "TX"}
    /\ place_type \in {"EATERY", "ATTRACTION"}
    /\ city_query_idx = 1
    /\ seen_urls = {}
    /\ all_places = <<>>
    /\ encountered = <<>>

ParkedCity ==
    /\ city_pc = "off"
    /\ state_or_country = ""
    /\ place_type = "none"
    /\ city_query_idx = 1
    /\ seen_urls = {}
    /\ all_places = <<>>
    /\ encountered = <<>>

\* The index in encountered of the first result with the given URL
FirstIndexOf(url) ==
    CHOOSE j \in DOMAIN encountered :
        /\ encountered[j].tripadvisor_url = url
        /\ \A i \in 1..(j - 1) : encountered[i].tripadvisor_url # url

\* C6: the list built by scrape_restaurants (and scrape_attractions) contains
\* no two entries with the same tripadvisor_url and no entry with an empty
\* URL; the entry kept for a URL is the first one encountered in search-query
\* order, and the entries are in first-encounter order.
C6_DeduplicatedByUrl ==
    /\ \A i, j \in DOMAIN all_places :
         i # j => all_places[i].tripadvisor_url # all_places[j].tripadvisor_url
    /\ \A i \in DOMAIN all_places : all_places[i].tripadvisor_url # ""
    /\ \A j \in DOMAIN encountered :
         encountered[j].tripadvisor_url # "" =>
            \E i \in DOMAIN all_places :
               all_places[i].tripadvisor_url = encountered[j].tripadvisor_url
    /\ \A i \in DOMAIN all_places :
         /\ \E j \in DOMAIN encountered : encountered[j].tripadvisor_url = all_places[i].tripadvisor_url
         /\ all_places[i] = encountered[FirstIndexOf(all_places[i].tripadvisor_url)]
    /\ \A i, j \in DOMAIN all_places :
         i < j => FirstIndexOf(all_places[i].tripadvisor_url)
                    < FirstIndexOf(all_places[j].tripadvisor_url)

\* C6 witness: the searches are over, some URL was returned twice with
\* different data and one result had no URL; two entries were kept.
C6_Witness ==
    /\ city_pc = "done"
    /\ Len(all_places) = 2
    /\ \E i, j \in DOMAIN encountered :
         /\ i < j
         /\ encountered[i].tripadvisor_url = encountered[j].tripadvisor_url
         /\ encountered[i] # encountered[j]
         /\ encountered[i].tripadvisor_url # ""


(***************************************************************************)
(* tripadvisor_scraper.py: TripAdvisorScraper.client and the concurrent    *)
(* page requests of scrape_search_by_type / scrape_hotel /                 *)
(* scrape_attraction / scrape_restaurant.  Every request goes through      *)
(* self.client, created with limits=httpx.Limits(max_connections=5); the   *)
(* pool grants a connection as that limit allows.  Each request in flight  *)
(* is taken to hold a connection of its own (no HTTP/2 multiplexing),      *)
(* which is the largest number of connections the requests can need.       *)
(***************************************************************************)
\* "limits=httpx.Limits(max_connections=5)"
max_connections == 5

PoolAlwaysHasRoom(open) == TRUE

\* the pool opens a new connection only below max_connections
PoolHasRoom(open) == open < max_connections

\* "tasks = [self.client.get(url) for url in other_page_urls]" followed by
\* asyncio.as_completed(tasks): every request is started and waits for a
\* connection.  A waiting request takes an idle connection, or a new one.
PoolAcquire(t) ==
    /\ pool_pc = "gather"
    /\ tasks[t] = "waiting"
    /\ \/ /\ idle > 0
          /\ idle' = idle - 1
       \/ /\ PoolHasRoom(active + idle)
          /\ idle' = idle
    /\ active' = active + 1
    /\ tasks' = [tasks EXCEPT ![t] = "active"]
    /\ UNCHANGED pool_pc
    /\ UNCHANGED othersPool

\* a request ends with a response or an error ("except Exception ...
\* continue"); its connection is kept alive or closed
PoolRelease(t) ==
    /\ pool_pc = "gather"
    /\ tasks[t] = "active"
    /\ \E outcome \in {"done", "failed"} : tasks' = [tasks EXCEPT ![t] = outcome]
    /\ active' = active - 1
    /\ \E keep_alive \in BOOLEAN : idle' = IF keep_alive THEN idle + 1 ELSE idle
    /\ UNCHANGED pool_pc
    /\ UNCHANGED othersPool

\* a request that gets no connection within the timeout (httpx.Timeout(150.0))
\* fails with PoolTimeout, caught by "except Exception"
PoolTimeout(t) ==
    /\ pool_pc = "gather"
    /\ tasks[t] = "waiting"
    /\ tasks' = [tasks EXCEPT ![t] = "failed"]
    /\ UNCHANGED <<pool_pc, active, idle>>
    /\ UNCHANGED othersPool

\* a kept-alive connection expires
PoolExpire ==
    /\ pool_pc = "gather"
    /\ idle > 0
    /\ idle' = idle - 1
    /\ UNCHANGED <<pool_pc, tasks, active>>
    /\ UNCHANGED othersPool

\* the as_completed loop ends when every request has ended
GatherReturn ==
    /\ pool_pc = "gather"
    /\ \A t \in DOMAIN tasks : tasks[t] \in {"done", "failed"}
    /\ pool_pc' = "done"
    /\ UNCHANGED <<tasks, active, idle>>
    /\ UNCHANGED othersPool

\* The gather starts after the first page was fetched through the same client,
\* whose connection may still be open.
InitPool ==
    /\ pool_pc = "gather"
    /\ \E n \in 0..MaxPages : tasks = [t \in 1..n |-> "waiting"]
    /\ active = 0
    /\ idle \in 0..1

ParkedPool ==
    /\ pool_pc = "off"
    /\ tasks = <<>>
    /\ active = 0
    /\ idle = 0

SearchTypes == {"hotels", "attractions", "restaurants"}

\* str(n) for n >= 0, one character per element
RECURSIVE Digits(_)
Digits(n) ==
    LET d == <<"0", "1", "2", "3", "4", "5", "6", "7", "8", "9">> IN
    IF n < 10 THEN <<d[n + 1]>> ELSE Digits(n \div 10) \o <<d[(n % 10) + 1]>>

\* f"oa{n}"
OffsetMarker(n) == <<"o", "a">> \o Digits(n)

\* A search page URL of TripAdvisor with result offset n (-oa<n>-)
PageUrl(n) == <<"/Hotels-g190311", "-">> \o OffsetMarker(n) \o <<"-", "Malta-Hotels.html">>

\* The first page's URL: no offset
full_search_url == <<"/Hotels-g190311", "-", "Malta-Hotels.html">>

\* str.replace(old, new): every non-overlapping occurrence, left to right
RECURSIVE Replace(_, _, _)
Replace(text, old, new) ==
    IF Len(text) < Len(old) THEN text
    ELSE IF SubSeq(text, 1, Len(old)) = old
         THEN new \o Replace(SubSeq(text, Len(old) + 1, Len(text)), old, new)
         ELSE <<Head(text)>> \o Replace(Tail(text), old, new)

\* "Next page" links a first page can hold: the offset of the second page is
\* the site's page length, which is the number of parsed results or not.
NextPageUrls == {PageUrl(n) : n \in (1..MaxPageSize) \cup {30}}

SearchTotalPagesUncapped(total_text, size, max) ==
    IF total_text # None THEN Ceil(total_text[1], size) ELSE 5

\* total_pages: ceil(total_results / page_size), or 5 when no total was found;
\* "if max_pages and total_pages > max_pages: total_pages = max_pages"
SearchTotalPages(total_text, size, max) ==
    LET total_pages == IF total_text # None THEN Ceil(total_text[1], size) ELSE 5
    IN  IF Truthy(max) /\ total_pages > max[1] THEN max[1] ELSE total_pages

\* other_page_urls
OtherPageUrls(next_url, size, total_pages) ==
    [i \in 1..Max(0, total_pages - 1) |->
        Replace(next_url, OffsetMarker(size), OffsetMarker(size * i))]

\* previews parsed from page p (0 is the first page)
PagePreviews(p, n) == [k \in 1..n |-> [page |-> p, item |-> k]]

\* scrape_search_by_type up to the gather: location data, the first page and
\* the pagination.  It returns [] when the location is not found, the type
\* has no URL, the first request fails or nothing is parsed, and the first
\* page's results when there is no "Next page" link; otherwise all remaining
\* pages are requested at once.
SearchFirstPage ==
    /\ sr_pc = "start"
    /\ \/ /\ sr_pc' = "done"
          /\ UNCHANGED <<page_size, total_results_text, next_page_url,
                         other_page_urls, page_state, page_previews,
                         first_results, search_list>>
       \/ \E size \in 1..MaxPageSize,
             total_text \in {None} \cup {Some(n) : n \in 0..MaxTotalResults},
             next_url \in {None} \cup NextPageUrls :
            LET urls == OtherPageUrls(next_url, size,
                                      SearchTotalPages(total_text, size, max_pages))
            IN  /\ page_size' = size
                /\ total_results_text' = total_text
                /\ next_page_url' = next_url
                /\ first_results' = PagePreviews(0, size)
                /\ search_list' = PagePreviews(0, size)
                /\ IF next_url = None
                   THEN /\ other_page_urls' = <<>>
                        /\ sr_pc' = "done"
                   ELSE /\ other_page_urls' = urls
                        /\ sr_pc' = "gather"
                /\ page_state' = [i \in DOMAIN other_page_urls' |-> "pending"]
                /\ page_previews' = [i \in DOMAIN other_page_urls' |-> <<>>]
    /\ UNCHANGED <<search_type, max_pages>>
    /\ UNCHANGED othersSearch

ReplaceResults(list, parsed) == parsed

\* "results.extend(self.parse_..._search_page(response))"
ExtendResults(list, parsed) == list \o parsed

\* One iteration of "for task in asyncio.as_completed(tasks)": whichever
\* pending request ends next; its previews are appended, an error is logged.
SearchPageCompleted(i) ==
    /\ sr_pc = "gather"
    /\ page_state[i] = "pending"
    /\ \/ /\ page_state' = [page_state EXCEPT ![i] = "failed"]
          /\ UNCHANGED <<page_previews, search_list>>
       \/ \E n \in 0..MaxPagePreviews :
            /\ page_state' = [page_state EXCEPT ![i] = "ok"]
            /\ page_previews' = [page_previews EXCEPT ![i] = PagePreviews(i, n)]
            /\ search_list' = ExtendResults(search_list, PagePreviews(i, n))
    /\ UNCHANGED <<sr_pc, search_type, max_pages, page_size, total_results_text,
                   next_page_url, other_page_urls, first_results>>
    /\ UNCHANGED othersSearch

\* "return results" after the loop
SearchReturn ==
    /\ sr_pc = "gather"
    /\ \A i \in DOMAIN page_state : page_state[i] # "pending"
    /\ sr_pc' = "done"
    /\ UNCHANGED <<search_type, max_pages, page_size, total_results_text,
                   next_page_url, other_page_urls, page_state, page_previews,
                   first_results, search_list>>
    /\ UNCHANGED othersSearch

InitSearch ==
    /\ sr_pc = "start"
    /\ search_type \in SearchTypes
    /\ max_pages \in {None} \cup {Some(n) : n \in 0..MaxSearchPages}
    /\ page_size = 0
    /\ total_results_text = None
    /\ next_page_url = None
    /\ other_page_urls = <<>>
    /\ page_state = <<>>
    /\ page_previews = <<>>
    /\ first_results = <<>>
    /\ search_list = <<>>

ParkedSearch ==
    /\ sr_pc = "off"
    /\ search_type = "none"
    /\ max_pages = None
    /\ page_size = 0
    /\ total_results_text = None
    /\ next_page_url = None
    /\ other_page_urls = <<>>
    /\ page_state = <<>>
    /\ page_previews = <<>>
    /\ first_results = <<>>
    /\ search_list = <<>>

\* search pages requested in total: the first page and every generated URL
PagesRequested == 1 + Len(other_page_urls)

\* C11: when the first page yields page_size >= 1 results, a total count
\* total_results >= 1 is found and a next-page link exists, the number of
\* search pages requested in total is min(max_pages, ceil(total_results /
\* page_size)) for a positive max_pages and ceil(total_results / page_size)
\* for max_pages None; when no total count is found the page count is 5
\* before max_pages is applied.
C11_PagesRequested ==
    (sr_pc \in {"gather", "done"} /\ page_size >= 1 /\ next_page_url # None
        /\ (max_pages = None \/ max_pages[1] >= 1)) =>
        /\ (total_results_text # None /\ total_results_text[1] >= 1) =>
              PagesRequested =
                 IF max_pages = None
                 THEN Ceil(total_results_text[1], page_size)
                 ELSE Min(max_pages[1], Ceil(total_results_text[1], page_size))
        /\ total_results_text = None =>
              PagesRequested = IF max_pages = None THEN 5 ELSE Min(max_pages[1], 5)

\* C11 witness: a total count that needs more pages than max_pages allows,
\* and the requests went out.
C11_Witness ==
    /\ sr_pc = "gather"
    /\ max_pages = Some(2)
    /\ total_results_text # None
    /\ Ceil(total_results_text[1], page_size) > 2
    /\ PagesRequested = 2


\* C16: for page_size >= 1 and total_pages >= 2 the URLs generated for the
\* remaining pages are pairwise distinct and the i-th one addresses result
\* offset page_size * i, for every next-page URL and every number of results
\* parsed from the first page.
C16_DistinctPageUrls ==
    (sr_pc \in {"gather", "done"} /\ page_size >= 1 /\ next_page_url # None) =>
        /\ \A i, j \in DOMAIN other_page_urls :
              i # j => other_page_urls[i] # other_page_urls[j]
        /\ \A i \in DOMAIN other_page_urls :
              other_page_urls[i] = PageUrl(page_size * i)

\* C17: for every completion order of the page requests the returned list
\* begins with the first page's results and holds, besides them, exactly the
\* previews parsed from the later pages whose request succeeded, each once;
\* a failed page request drops no other page's results.
C17_ResultsOfAllCompletedPages ==
    sr_pc \in {"gather", "done"} =>
        /\ Len(search_list) >= Len(first_results)
        /\ SubSeq(search_list, 1, Len(first_results)) = first_results
        /\ \A i, j \in DOMAIN search_list : i # j => search_list[i] # search_list[j]
        /\ SeqToSet(search_list) =
              SeqToSet(first_results)
              \cup UNION {SeqToSet(page_previews[i]) :
                            i \in {k \in DOMAIN page_state : page_state[k] = "ok"}}

\* C17 witness: the function returned after a later page's results arrived
\* before an earlier page's and another page request failed.
C17_Witness ==
    /\ sr_pc = "done"
    /\ \E i \in DOMAIN page_state : page_state[i] = "failed"
    /\ \E a, b \in DOMAIN search_list :
          a < b /\ search_list[a].page > search_list[b].page /\ search_list[b].page > 0


(***************************************************************************)
(* reddit_travel_scraper.py: what search_travel_posts returns              *)
(***************************************************************************)
\* C12: for every limit >= 0, every subreddit list and any search responses
\* search_travel_posts returns at most limit posts, no two of them with the
\* same id, in non-increasing score order.
C12_LimitedUniqueSorted ==
    script = "reddit_main" =>
        /\ Len(sorted_posts) <= args.limit
        /\ \A i, j \in DOMAIN sorted_posts :
              i # j => sorted_posts[i].id # sorted_posts[j].id
        /\ \A i, j \in DOMAIN sorted_posts :
              i < j => sorted_posts[i].score >= sorted_posts[j].score

\* C12 witness: two posts were found, the lower-scored one first, the limit
\* is 1 and the higher-scored post was returned.
C12_Witness ==
    /\ script = "reddit_main"
    /\ pc = "posts"
    /\ args.limit = 1
    /\ Len(posts) = 2
    /\ posts[1].id # posts[2].id
    /\ posts[1].score < posts[2].score
    /\ sorted_posts = <<posts[2]>>


(***************************************************************************)
(* reddit_travel_scraper.py: RedditTravelScraper._is_relevant_post.        *)
(* Texts are sequences of characters.                                      *)
(***************************************************************************)
UpperCase ==
    <<"A", "B", "C", "D", "E", "F", "G", "H", "I", "J", "K", "L", "M",
      "N", "O", "P", "Q", "R", "S", "T", "U", "V", "W", "X", "Y", "Z">>

LowerCase ==
    <<"a", "b", "c", "d", "e", "f", "g", "h", "i", "j", "k", "l", "m",
      "n", "o", "p", "q", "r", "s", "t", "u", "v", "w", "x", "y", "z">>

\* str.lower(), character by character
LowerText(text) ==
    [k \in DOMAIN text |->
        IF \E u \in DOMAIN UpperCase : UpperCase[u] = text[k]
        THEN LowerCase[CHOOSE u \in DOMAIN UpperCase : UpperCase[u] = text[k]]
        ELSE text[k]]

\* str.split(): the maximal runs of non-blank characters
RECURSIVE SplitWords(_, _)
SplitWords(text, word) ==
    IF text = <<>> THEN (IF word = <<>> THEN <<>> ELSE <<word>>)
    ELSE IF Head(text) = " "
         THEN (IF word = <<>> THEN <<>> ELSE <<word>>) \o SplitWords(Tail(text), <<>>)
         ELSE SplitWords(Tail(text), Append(word, Head(text)))

\* "needle in text" for str
InText(needle, text) ==
    \E k \in 0..(Len(text) - Len(needle)) :
        SubSeq(text, k + 1, k + Len(needle)) = needle

\* "keyword in title_lower or keyword in selftext_lower"
KeywordFound(keyword, title_lower, selftext_lower) ==
    InText(keyword, title_lower) \/ InText(keyword, selftext_lower)

\* "(post.selftext or '')"
OrEmpty(text) == IF text = None THEN <<>> ELSE text[1]

\* "len(keyword) > 2"
KeywordCounts(keyword) == Len(keyword) > 2

\* _is_relevant_post(post, location)
IsRelevantPost(p, loc) ==
    LET location_keywords == SplitWords(LowerText(loc), <<>>)
        title_lower == LowerText(p.title)
        selftext_lower == LowerText(OrEmpty(p.selftext))
    IN  \E k \in DOMAIN location_keywords :
            /\ KeywordCounts(location_keywords[k])
            /\ KeywordFound(location_keywords[k], title_lower, selftext_lower)

\* Locations: the documented "City, ST" form and a plain name
Locations == {
    <<"A", "u", "s", "t", "i", "n", ",", " ", "T", "X">>,
    <<"P", "u", "e", "r", "t", "o", " ", "R", "i", "c", "o">>,
    <<"R", "o", "m", "e", ",", " ", "I", "T">>
}

Titles == {
    <<"B", "B", "Q", " ", "i", "n", " ", "A", "u", "s", "t", "i", "n">>,
    <<"A", "U", "S", "T", "I", "N", ",", " ", "T", "X", " ", "t", "r", "i",
      "p">>,
    <<"D", "a", "l", "l", "a", "s", " ", "e", "a", "t", "s">>,
    <<"O", "l", "d", " ", "S", "a", "n", " ", "J", "u", "a", "n">>,
    <<"r", "o", "m", "e", ",", " ", "i", "t", " ", "r", "o", "c", "k", "s">>,
    <<"R", "o", "m", "a">>
}

Selftexts == {None} \cup {Some(t) : t \in {
    <<>>,
    <<"I", " ", "l", "o", "v", "e", " ", "a", "u", "s", "t", "i", "n">>,
    <<"H", "o", "t", "e", "l", " ", "i", "n", " ", "R", "o", "m", "e", "?">>,
    <<"n", "o", " ", "t", "x", "t">>,
    <<"p", "u", "e", "r", "t", "o">>
}}

IsRelevantPostCall ==
    /\ rel_pc = "call"
    /\ relevant' = IsRelevantPost(post, rel_location)
    /\ rel_pc' = "returned"
    /\ UNCHANGED <<rel_location, post>>
    /\ UNCHANGED othersRelevant

InitRelevant ==
    /\ rel_pc = "call"
    /\ rel_location \in Locations
    /\ post \in [title : Titles, selftext : Selftexts]
    /\ relevant = FALSE

ParkedRelevant ==
    /\ rel_pc = "off"
    /\ rel_location = <<>>
    /\ post = [title |-> <<>>, selftext |-> None]
    /\ relevant = FALSE

\* the part of the location before its comma (the city of "City, ST")
RECURSIVE CityName(_)
CityName(loc) ==
    IF loc = <<>> \/ Head(loc) = "," THEN <<>> ELSE <<Head(loc)>> \o CityName(Tail(loc))

\* the location's words: its lower-cased runs of letters
RECURSIVE LocationWords(_, _)
LocationWords(text, word) ==
    IF text = <<>> THEN (IF word = <<>> THEN {} ELSE {word})
    ELSE IF Head(text) \in {" ", ","}
         THEN (IF word = <<>> THEN {} ELSE {word}) \cup LocationWords(Tail(text), <<>>)
         ELSE LocationWords(Tail(text), Append(word, Head(text)))

\* C13: for a location of the form "City, ST", _is_relevant_post returns True
\* for every post whose title or selftext contains the city name
\* case-insensitively, and False for a post that contains none of the
\* location's words.
C13_CityNameIsRelevant ==
    (rel_pc = "returned" /\ InText(<<",", " ">>, rel_location)) =>
        LET title_lower == LowerText(post.title)
            selftext_lower == LowerText(OrEmpty(post.selftext))
        IN  /\ KeywordFound(LowerText(CityName(rel_location)), title_lower, selftext_lower)
                 => relevant
            /\ (\A w \in LocationWords(LowerText(rel_location), <<>>) :
                    ~KeywordFound(w, title_lower, selftext_lower))
                 => ~relevant


(***************************************************************************)
(* scripts/extract_reddit_content.py: extract_full_reddit_content, with    *)
(* scripts/filter_most_useful.py producing the curated file it reads.      *)
(* A URL is the sequence of its parts between slashes (url.split('/')).    *)
(***************************************************************************)
\* URLs of curated posts
CuratedUrls == {
    <<"https:", "", "www.reddit.com", "r", "PuertoRico", "comments", "1abc", "tips", "">>,
    <<"https:", "", "www.reddit.com", "r", "travel", "comments", "2def", "san_juan", "">>,
    <<"https:", "", "www.reddit.com", "r", "PuertoRico", "comments", "", "">>,
    <<"https:", "", "www.reddit.com", "r", "PuertoRico", "comments">>,
    <<"https:", "", "www.reddit.com", "r", "PuertoRico", "">> }

\* parts.index('comments')
IndexOfComments(parts) ==
    CHOOSE k \in DOMAIN parts :
        parts[k] = "comments" /\ \A j \in 1..(k - 1) : parts[j] # "comments"

\* extract_post_id_from_url(url): the part after 'comments', else None
ExtractPostIdFromUrl(parts) ==
    IF \E k \in DOMAIN parts : parts[k] = "comments"
    THEN IF IndexOfComments(parts) + 1 <= Len(parts)
         THEN Some(parts[IndexOfComments(parts) + 1])
         ELSE None
    ELSE None

\* "if not post_id": None and the empty string
NoPostId(post_id) == post_id = None \/ post_id[1] = ""

\* filter_most_useful keeps one post per URL ("Remove duplicates (same URL)")
CuratedLists ==
    {posts_list \in UNION {[1..n -> [url : CuratedUrls]] : n \in 0..MaxCurated} :
        \A i, j \in DOMAIN posts_list : i # j => posts_list[i].url # posts_list[j].url}

\* filter_most_useful: the curated file is written with the selected top posts
FilterMostUseful ==
    /\ ex_pc = "start"
    /\ curated_file = None
    /\ \E top \in CuratedLists : curated_file' = Some(top)
    /\ UNCHANGED <<ex_pc, credentials, connected, full_content_file, post_idx,
                   outcomes, ex_posts_with_content, returned>>
    /\ UNCHANGED othersExtract

HasCredentialsAlways(present) == TRUE

\* "if not all([REDDIT_CLIENT_ID, REDDIT_CLIENT_SECRET, REDDIT_USER_AGENT])"
HasCredentials(present) == present

\* extract_full_reddit_content up to the loop: credentials, API connection and
\* the curated file; each failure returns None
ExtractStart ==
    /\ ex_pc = "start"
    /\ IF HasCredentials(credentials) /\ connected /\ curated_file # None
       THEN /\ ex_pc' = "loop"
            /\ UNCHANGED returned
       ELSE /\ ex_pc' = "done"
            /\ returned' = "None"
    /\ UNCHANGED <<credentials, connected, curated_file, full_content_file,
                   post_idx, outcomes, ex_posts_with_content>>
    /\ UNCHANGED othersExtract

\* The top-level comments reddit returns for a submission
CommentLists ==
    {[k \in 1..n |-> "body"] : n \in 0..MaxComments}
    \cup {[k \in 1..n |-> IF k = 1 THEN "[deleted]" ELSE "body"] : n \in 1..MaxComments}

AllComments(comments) == SelectSeq(comments, LAMBDA body : body # "[deleted]")

\* "top_comments = submission.comments[:5]" and the loop that keeps those
\* with a body other than '[deleted]'
TopComments(comments) == SelectSeq(Slice(comments, 5), LAMBDA body : body # "[deleted]")

\* One iteration of "for i, post_data in enumerate(curated_data['top_posts'], 1)":
\* no id: continue; an error fetching the submission or loading its comments
\* is caught and logged; otherwise the post is appended.
ExtractPost ==
    /\ ex_pc = "loop"
    /\ post_idx <= Len(curated_file[1])
    /\ LET post_data == curated_file[1][post_idx]
           post_id == ExtractPostIdFromUrl(post_data.url)
       IN  IF NoPostId(post_id)
           THEN /\ outcomes' = Append(outcomes, "no_id")
                /\ UNCHANGED ex_posts_with_content
           ELSE \/ \E error \in {"fetch_raised", "comments_raised"} :
                     /\ outcomes' = Append(outcomes, error)
                     /\ UNCHANGED ex_posts_with_content
                \/ \E comments \in CommentLists :
                     /\ outcomes' = Append(outcomes, "ok")
                     /\ ex_posts_with_content' =
                           Append(ex_posts_with_content,
                                  [original_data |-> post_data,
                                   id |-> post_id[1],
                                   top_comments |-> TopComments(comments)])
    /\ post_idx' = post_idx + 1
    /\ UNCHANGED <<ex_pc, credentials, connected, curated_file, full_content_file,
                   returned>>
    /\ UNCHANGED othersExtract

\* After the loop: output_data is written to the full-content file and returned
ExtractSave ==
    /\ ex_pc = "loop"
    /\ post_idx > Len(curated_file[1])
    /\ full_content_file' =
          Some([total_posts_extracted |-> Len(ex_posts_with_content),
                posts_with_full_content |-> ex_posts_with_content])
    /\ returned' = "output_data"
    /\ ex_pc' = "done"
    /\ UNCHANGED <<credentials, connected, curated_file, post_idx, outcomes,
                   ex_posts_with_content>>
    /\ UNCHANGED othersExtract

InitExtract ==
    /\ ex_pc = "start"
    /\ credentials \in BOOLEAN
    /\ connected \in BOOLEAN
    /\ curated_file = None
    /\ full_content_file = None
    /\ post_idx = 1
    /\ outcomes = <<>>
    /\ ex_posts_with_content = <<>>
    /\ returned = "nothing yet"

ParkedExtract ==
    /\ ex_pc = "off"
    /\ credentials = FALSE
    /\ connected = FALSE
    /\ curated_file = None
    /\ full_content_file = None
    /\ post_idx = 1
    /\ outcomes = <<>>
    /\ ex_posts_with_content = <<>>
    /\ returned = "nothing yet"

\* C14: extract_full_reddit_content writes the full-content file only after
\* the curated file has been produced; if credentials are missing, the API
\* connection fails or the curated file is absent it returns None and
\* creates or modifies no file.
C14_NoFileWithoutInputs ==
    /\ full_content_file # None => curated_file # None
    /\ (ex_pc = "done" /\ (~credentials \/ ~connected \/ curated_file = None)) =>
          returned = "None" /\ full_content_file = None

\* C14 witness: credentials and connection are fine, the curated file was
\* never produced, and the function returned None.
C14_Witness ==
    /\ ex_pc = "done"
    /\ credentials
    /\ connected
    /\ curated_file = None
    /\ returned = "None"

\* The curated posts whose processing ended without error, in curated order
RECURSIVE ProcessedWithoutError(_, _)
ProcessedWithoutError(curated, ends) ==
    IF ends = <<>> THEN <<>>
    ELSE (IF Head(ends) = "ok" THEN <<Head(curated)>> ELSE <<>>)
         \o ProcessedWithoutError(Tail(curated), Tail(ends))

\* C15: a curated post whose id cannot be extracted, or whose fetch or
\* comment loading raises, is skipped without aborting the loop;
\* posts_with_full_content holds exactly the posts processed without error,
\* in curated order, each with at most 5 top comments, and
\* meta.total_posts_extracted equals its length.
C15_ExactlyThePostsWithoutError ==
    returned = "output_data" =>
        LET content == full_content_file[1] IN
        /\ Len(outcomes) = Len(curated_file[1])
        /\ [k \in DOMAIN content.posts_with_full_content |->
               content.posts_with_full_content[k].original_data]
             = ProcessedWithoutError(curated_file[1], outcomes)
        /\ \A k \in DOMAIN content.posts_with_full_content :
               Len(content.posts_with_full_content[k].top_comments) <= 5
        /\ content.total_posts_extracted = Len(content.posts_with_full_content)

\* C15 witness: of two curated posts the first one failed and the second one,
\* with more than 5 comments on reddit, was written with 5.
C15_Witness ==
    /\ returned = "output_data"
    /\ Len(curated_file[1]) = 2
    /\ outcomes[1] \in {"no_id", "fetch_raised", "comments_raised"}
    /\ outcomes[2] = "ok"
    /\ Len(full_content_file[1].posts_with_full_content) = 1
    /\ Len(full_content_file[1].posts_with_full_content[1].top_comments) = 5


(***************************************************************************)
(* scraper-runner.py: the scraper's client in run_httpx_scraper and        *)
(* run_all_types_scraper                                                   *)
(***************************************************************************)
\* C18: run_httpx_scraper and run_all_types_scraper close the scraper's HTTP
\* client exactly once on every exit path (normal return, unsupported content
\* type, exception during scraping), and no request is issued through the
\* client after it has been closed.
C18_ClientClosedExactlyOnce ==
    runner \in {"run_httpx_scraper", "run_all_types_scraper"} =>
        /\ client_closed <= 1
        /\ pc \in {"search", "loop", "return", "except", "finally"} => client_closed = 0
        /\ pc \in {"after_run", "done"} => client_closed = 1

\* C18 witness: run_httpx_scraper was called with an unsupported content type
\* and has returned with the client closed.
C18_Witness ==
    /\ script = "run_httpx_scraper"
    /\ args.type = "events"
    /\ pc = "done"
    /\ data = <<>>
    /\ client_closed = 1


(***************************************************************************)
(* universal_city_scraper.py: UniversalCityScraper.search_places, one call *)
(* with each place type its callers pass and each response.                *)
(***************************************************************************)
\* search_places(search_query, place_type): the whole body runs inside
\* "try: ... except Exception", after which "return results"
SearchPlacesCall ==
    /\ sp_pc = "start"
    /\ sp_returned' = Some(SearchPlaces(sp_response, sp_place_type))
    /\ sp_pc' = "done"
    /\ UNCHANGED <<sp_place_type, sp_response>>
    /\ UNCHANGED othersPlaces

InitPlaces ==
    /\ sp_pc = "start"
    /\ sp_place_type \in {"EATERY", "ATTRACTION"}
    /\ sp_response \in PlaceResponses
    /\ sp_returned = None

ParkedPlaces ==
    /\ sp_pc = "off"
    /\ sp_place_type = "none"
    /\ sp_response = [kind |-> "exception", raw |-> <<>>]
    /\ sp_returned = None

\* C22: search_places never raises: for every response (non-200 status,
\* malformed JSON, entries with missing or null fields, network error) it
\* returns a list; the list holds only results whose placeType is the
\* requested place type or whose URL contains the matching review marker,
\* and the results accepted before a malformed entry are still returned.
C22_ListOfMatchingResults ==
    sp_pc = "done" =>
        LET returned_list == sp_returned[1]
            marker == IF sp_place_type = "EATERY" THEN "Restaurant_Review"
                      ELSE "Attraction_Review"
            raw == sp_response.raw
            malformed == {k \in DOMAIN raw : raw[k].url = JsonNull}
            wellformed == IF malformed = {} THEN Len(raw)
                          ELSE (CHOOSE k \in malformed : \A j \in malformed : k <= j) - 1
            accepted ==
                SelectSeq(SubSeq(raw, 1, wellformed),
                          LAMBDA entry : \/ entry.placeType = sp_place_type
                                         \/ UrlContains(entry.url, marker))
        IN  /\ sp_returned # None
            /\ DOMAIN returned_list = 1..Len(returned_list)
            /\ \A k \in DOMAIN returned_list :
                  \/ returned_list[k].place_type = sp_place_type
                  \/ UrlContains(returned_list[k].tripadvisor_url, marker)
            /\ sp_response.kind # "ok" => returned_list = <<>>
            /\ sp_response.kind = "ok" =>
                  /\ Len(returned_list) = Len(accepted)
                  /\ \A k \in DOMAIN returned_list :
                        /\ returned_list[k].tripadvisor_url = accepted[k].url
                        /\ returned_list[k].place_type = accepted[k].placeType

\* C22 witness: the response held a matching entry followed by an entry with
\* a null url; the call returned the first one.
C22_Witness ==
    /\ sp_pc = "done"
    /\ sp_response.kind = "ok"
    /\ Len(sp_response.raw) = 2
    /\ sp_response.raw[1].url # JsonNull
    /\ sp_response.raw[2].url = JsonNull
    /\ Len(sp_returned[1]) = 1


(***************************************************************************)
(* tripadvisor_scraper.py: the review pagination of scrape_hotel,          *)
(* scrape_attraction and scrape_restaurant, each called on an item page    *)
(* that reports the same review count, with the same max_review_pages.     *)
(***************************************************************************)
\* scrape_hotel(url, max_review_pages) on a page whose aggregateRating holds
\* reviewCount: review_urls
ScrapeHotelCall ==
    /\ rv_pc = "calls"
    /\ rv_review_urls.scrape_hotel = None
    /\ rv_review_urls' =
          [rv_review_urls EXCEPT !.scrape_hotel =
              Some(ReviewUrls(HotelReviewPages(rv_total_reviews, rv_max_review_pages)))]
    /\ UNCHANGED <<rv_pc, rv_total_reviews, rv_max_review_pages>>
    /\ UNCHANGED othersReviews

\* scrape_attraction(url, max_review_pages): review_urls
ScrapeAttractionCall ==
    /\ rv_pc = "calls"
    /\ rv_review_urls.scrape_attraction = None
    /\ rv_review_urls' =
          [rv_review_urls EXCEPT !.scrape_attraction =
              Some(ReviewUrls(PlaceReviewPages(rv_total_reviews, rv_max_review_pages)))]
    /\ UNCHANGED <<rv_pc, rv_total_reviews, rv_max_review_pages>>
    /\ UNCHANGED othersReviews

\* scrape_restaurant(url, max_review_pages): review_urls
ScrapeRestaurantCall ==
    /\ rv_pc = "calls"
    /\ rv_review_urls.scrape_restaurant = None
    /\ rv_review_urls' =
          [rv_review_urls EXCEPT !.scrape_restaurant =
              Some(ReviewUrls(PlaceReviewPages(rv_total_reviews, rv_max_review_pages)))]
    /\ UNCHANGED <<rv_pc, rv_total_reviews, rv_max_review_pages>>
    /\ UNCHANGED othersReviews

InitReviews ==
    /\ rv_pc = "calls"
    /\ rv_total_reviews \in {n \in 0..(10 * MaxTotalPages) : n % 10 \in {0, 1}}
    /\ rv_max_review_pages \in {None} \cup {Some(n) : n \in 0..MaxArg}
    /\ rv_review_urls = [scrape_hotel |-> None, scrape_attraction |-> None,
                         scrape_restaurant |-> None]

ParkedReviews ==
    /\ rv_pc = "off"
    /\ rv_total_reviews = 0
    /\ rv_max_review_pages = None
    /\ rv_review_urls = [scrape_hotel |-> None, scrape_attraction |-> None,
                         scrape_restaurant |-> None]

\* C23: given the same reported review count and the same max_review_pages
\* (a positive integer, 0 or None), scrape_hotel, scrape_attraction and
\* scrape_restaurant request the same number of additional review pages, at
\* the same offsets 10, 20, ...
C23_SameReviewPages ==
    (/\ rv_review_urls.scrape_hotel # None
     /\ rv_review_urls.scrape_attraction # None
     /\ rv_review_urls.scrape_restaurant # None) =>
        /\ rv_review_urls.scrape_hotel = rv_review_urls.scrape_attraction
        /\ rv_review_urls.scrape_attraction = rv_review_urls.scrape_restaurant
        /\ \A k \in DOMAIN rv_review_urls.scrape_hotel[1] :
              rv_review_urls.scrape_hotel[1][k] = 10 * k


(***************************************************************************)
(* Specifications.                                                         *)
(***************************************************************************)
Init == InitEntry /\ ParkedIsla /\ ParkedRetry /\ ParkedGuide /\ ParkedCity /\ ParkedPool /\ ParkedSearch /\ ParkedRelevant /\ ParkedExtract /\ ParkedPlaces /\ ParkedReviews

Next ==
    \/ RunnerMain
    \/ RunHttpxScraperCall
    \/ TripAdvisorMain
    \/ ScrapeSearch
    \/ ScrapeItem
    \/ ByTypeReturn
    \/ RunnerReturn
    \/ RunnerExcept
    \/ TripAdvisorSave
    \/ RunnerFinally
    \/ RunnerSave
    \/ RedditMain
    \/ OpenSubreddit
    \/ SearchTerm
    \/ NextSubreddit
    \/ ReturnPosts
    \/ RedditSave

\* The three main entry points.
Spec == Init /\ [][Next]_vars

NextIsla ==
    \/ SearchLocation
    \/ TryQueryId
    \/ NoAttractionsFound
    \/ BuildResult

\* tripadvisor_advanced_isla_verde.py: scrape_isla_verde_complete
IslaInit == InitIsla /\ ParkedEntry /\ ParkedRetry /\ ParkedGuide /\ ParkedCity /\ ParkedPool /\ ParkedSearch /\ ParkedRelevant /\ ParkedExtract /\ ParkedPlaces /\ ParkedReviews

SpecIsla == IslaInit /\ [][NextIsla]_vars

NextRetry ==
    \/ TestUrlAttempt
    \/ TestUrlGiveUp
    \/ BatchLoad
    \/ BatchInfo
    \/ BatchProcess
    \/ BatchSave

RetryInit == InitRetry /\ ParkedEntry /\ ParkedIsla /\ ParkedGuide /\ ParkedCity /\ ParkedPool /\ ParkedSearch /\ ParkedRelevant /\ ParkedExtract /\ ParkedPlaces /\ ParkedReviews

\* test_url_access and extract_full_reddit_content_batch
SpecRetry == RetryInit /\ [][NextRetry]_vars

NextGuide ==
    \/ GuideSearch
    \/ GuideMerge

GuideInit == InitGuide /\ ParkedEntry /\ ParkedIsla /\ ParkedRetry /\ ParkedCity /\ ParkedPool /\ ParkedSearch /\ ParkedRelevant /\ ParkedExtract /\ ParkedPlaces /\ ParkedReviews

\* create_final_guide and create_restaurant_guide
SpecGuide == GuideInit /\ [][NextGuide]_vars

NextCity ==
    \/ CitySearch
    \/ CityReturn

CityInit == InitCity /\ ParkedEntry /\ ParkedIsla /\ ParkedRetry /\ ParkedGuide /\ ParkedPool /\ ParkedSearch /\ ParkedRelevant /\ ParkedExtract /\ ParkedPlaces /\ ParkedReviews

\* UniversalCityScraper.scrape_restaurants and scrape_attractions
SpecCity == CityInit /\ [][NextCity]_vars

NextPool ==
    \/ \E t \in DOMAIN tasks : PoolAcquire(t)
    \/ \E t \in DOMAIN tasks : PoolRelease(t)
    \/ \E t \in DOMAIN tasks : PoolTimeout(t)
    \/ PoolExpire
    \/ GatherReturn

PoolInit == InitPool /\ ParkedEntry /\ ParkedIsla /\ ParkedRetry /\ ParkedGuide /\ ParkedCity /\ ParkedSearch /\ ParkedRelevant /\ ParkedExtract /\ ParkedPlaces /\ ParkedReviews

\* the connections of TripAdvisorScraper.client during one gather
SpecPool == PoolInit /\ [][NextPool]_vars

NextSearch ==
    \/ SearchFirstPage
    \/ \E i \in DOMAIN page_state : SearchPageCompleted(i)
    \/ SearchReturn

SearchInit ==
    InitSearch /\ ParkedEntry /\ ParkedIsla /\ ParkedRetry /\ ParkedGuide /\ ParkedCity /\ ParkedPool
        /\ ParkedRelevant /\ ParkedExtract /\ ParkedPlaces /\ ParkedReviews

\* TripAdvisorScraper.scrape_search_by_type
SpecSearch == SearchInit /\ [][NextSearch]_vars

NextRelevant == IsRelevantPostCall

RelevantInit ==
    InitRelevant /\ ParkedEntry /\ ParkedIsla /\ ParkedRetry /\ ParkedGuide /\ ParkedCity /\ ParkedPool
        /\ ParkedSearch /\ ParkedExtract /\ ParkedPlaces /\ ParkedReviews

\* RedditTravelScraper._is_relevant_post on one post
SpecRelevant == RelevantInit /\ [][NextRelevant]_vars

NextExtract ==
    \/ FilterMostUseful
    \/ ExtractStart
    \/ ExtractPost
    \/ ExtractSave

ExtractInit ==
    InitExtract /\ ParkedEntry /\ ParkedIsla /\ ParkedRetry /\ ParkedGuide /\ ParkedCity /\ ParkedPool
        /\ ParkedSearch /\ ParkedRelevant /\ ParkedPlaces /\ ParkedReviews

\* filter_most_useful followed by extract_full_reddit_content
SpecExtract == ExtractInit /\ [][NextExtract]_vars

NextPlaces ==
    \/ SearchPlacesCall

PlacesInit ==
    InitPlaces /\ ParkedEntry /\ ParkedIsla /\ ParkedRetry /\ ParkedGuide /\ ParkedCity /\ ParkedPool
        /\ ParkedSearch /\ ParkedRelevant /\ ParkedExtract /\ ParkedReviews

\* one call of search_places
SpecPlaces == PlacesInit /\ [][NextPlaces]_vars

NextReviews ==
    \/ ScrapeHotelCall
    \/ ScrapeAttractionCall
    \/ ScrapeRestaurantCall

ReviewsInit ==
    InitReviews /\ ParkedEntry /\ ParkedIsla /\ ParkedRetry /\ ParkedGuide /\ ParkedCity /\ ParkedPool
        /\ ParkedSearch /\ ParkedRelevant /\ ParkedExtract /\ ParkedPlaces

\* scrape_hotel, scrape_attraction and scrape_restaurant on like items
SpecReviews == ReviewsInit /\ [][NextReviews]_vars

====
